---- MODULE Spec2Model ----
(***************************************************************************)
(* Model of confluent-connect-util: the connector catalog and its          *)
(* validate_config (src/connectors/mod.rs), the Terraform generator        *)
(* (src/terraform.rs) and the Terraform parser (src/app.rs).               *)
(*                                                                         *)
(* Rust values are represented as follows.                                 *)
(*   Option<T>          <<>> for None, <<x>> for Some(x)                   *)
(*   Vec<T>             a sequence                                         *)
(*   HashMap<String,_>  a function whose DOMAIN is the key set             *)
(*   hcl::Object        a sequence of [key, value] entries in insertion    *)
(*                      order (the map keeps insertion order)              *)
(*   hcl::Expression    a record tagged by its variant in field t          *)
(*   String             the key of a map, the name of a field, a label of  *)
(*                      the catalog: a TLA+ string.  The value of a config *)
(*                      entry, a topic, a connector name, a block label:   *)
(*                      the sequence of its pieces (characters, or longer  *)
(*                      pieces that are never looked into), so that it can *)
(*                      be rewritten, joined and formatted; S("abc") is    *)
(*                      the value whose text is the literal abc            *)
(*   Terraform text     the sequence of its elements as written: comment   *)
(*                      lines, blank lines, text that is no HCL,           *)
(*                      attributes and blocks, object keys bare or quoted  *)
(*                                                                         *)
(* The specifications share the variables: SpecValidate drives             *)
(* validate_config, SpecGenerate drives generate_connector_config and      *)
(* parses, validates and checks the structure of what it wrote, SpecParse  *)
(* drives parse_terraform_configs on written texts, SpecOverrides drives   *)
(* add_connector_specific_config_to_object, SpecResourceBlock drives       *)
(* validate_resource_block, SpecStructure drives                           *)
(* validate_terraform_structure, SpecConnector drives validate_connector,  *)
(* SpecCatalog drives get_connector_by_name and SpecExtract drives the two *)
(* extractors.  Each one holds the variables of the others fixed.          *)
(***************************************************************************)
EXTENDS Integers, Sequences, FiniteSets, TLC

(***************************************************************************)
(* Bounds of the model.                                                    *)
(***************************************************************************)
\* total number of entries of the two maps handed to validate_config
MaxEntries == 4
\* length of a connector name
MaxNameLen == 2
\* number of topics of the options
MaxTopics == 2
\* number of top-level elements of a Terraform text
MaxElements == 2
\* number of entries of an object before the connector-specific ones
MaxKeys == 2

(***************************************************************************)
(* Generic helpers.                                                        *)
(***************************************************************************)
NoneOpt == <<>>
SomeOpt(x) == <<x>>
is_some(o) == Len(o) > 0
unwrap(o) == o[1]

Range(seq) == {seq[i] : i \in DOMAIN seq}

\* "...".to_string() as a value: the empty text has no piece
S(literal) == IF literal = "" THEN <<>> ELSE <<literal>>

\* vec!["a".to_string(), ...]
strings(literals) == [i \in DOMAIN literals |-> S(literals[i])]

\* String::is_empty
is_empty(s) == Len(s) = 0

MinOf(set) == CHOOSE x \in set : \A y \in set : x <= y

\* HashMap::new
EmptyMap == [k \in {} |-> <<>>]

\* HashMap::contains_key
contains_key(map, k) == k \in DOMAIN map

\* HashMap::insert: a present key has its value replaced
map_insert(map, k, v) == [x \in (DOMAIN map) \cup {k} |-> IF x = k THEN v ELSE map[x]]

\* HashMap::extend: every entry of other is inserted, superseding map's
map_extend(map, other) ==
    [x \in (DOMAIN map) \cup (DOMAIN other) |-> IF x \in DOMAIN other THEN other[x] ELSE map[x]]

(***************************************************************************)
(* Catalog: ConfigField and ConnectorDefinition values.                    *)
(***************************************************************************)
config_field(name, description, field_type, required, valid_values) ==
    [name |-> name,
     display_name |-> name,
     description |-> description,
     field_type |-> field_type,
     required |-> required,
     default_value |-> NoneOpt,
     valid_values |-> valid_values]

mqtt_source ==
    [name |-> "MQTTSource",
     display_name |-> "MQTT Source",
     connector_class |-> "MQTTSource",
     connector_type |-> "Source",
     description |-> "Read messages from MQTT brokers",
     required_configs |-> <<
        config_field("mqtt.broker.url", "MQTT broker URL", "string", TRUE, NoneOpt),
        config_field("mqtt.topics", "MQTT topics to subscribe to", "string", TRUE, NoneOpt)>>,
     optional_configs |-> <<
        config_field("mqtt.username", "MQTT username", "string", FALSE, NoneOpt),
        config_field("mqtt.password", "MQTT password", "string", FALSE, NoneOpt),
        config_field("poll.interval.ms", "Polling interval in milliseconds", "long", FALSE, NoneOpt),
        config_field("max.records", "Maximum number of records to fetch", "int", FALSE, NoneOpt),
        config_field("mqtt.client.id", "MQTT client ID", "string", FALSE, NoneOpt),
        config_field("mqtt.qos", "MQTT QoS level", "int", FALSE, SomeOpt(strings(<<"0", "1", "2">>))),
        config_field("mqtt.ssl.enabled", "Enable SSL", "boolean", FALSE,
                     SomeOpt(strings(<<"true", "false">>)))>>,
     sensitive_configs |-> <<"mqtt.password">>]

postgresql_cdc_source_v2 ==
    [name |-> "PostgresCdcSourceV2",
     display_name |-> "PostgreSQL CDC Source V2 (Debezium)",
     connector_class |-> "PostgresCdcSourceV2",
     connector_type |-> "Source",
     description |-> "Capture change data from PostgreSQL databases (V2)",
     required_configs |-> <<
        config_field("database.hostname", "Database hostname", "string", TRUE, NoneOpt),
        config_field("database.port", "Database port", "int", TRUE, NoneOpt),
        config_field("database.user", "Database username", "string", TRUE, NoneOpt),
        config_field("database.dbname", "Database name", "string", TRUE, NoneOpt),
        config_field("topic.prefix", "Topic prefix for CDC events", "string", TRUE, NoneOpt)>>,
     optional_configs |-> <<
        config_field("database.sslmode", "SSL mode for database connection", "string", FALSE,
                     SomeOpt(strings(<<"disable", "require", "verify-ca", "verify-full">>))),
        config_field("publication.name", "PostgreSQL publication name", "string", FALSE, NoneOpt),
        config_field("publication.autocreate.mode", "Publication auto-creation mode", "string",
                     FALSE, SomeOpt(strings(<<"disabled", "all_tables", "filtered">>))),
        config_field("snapshot.mode", "Snapshot mode for initial data capture", "string", FALSE,
                     SomeOpt(strings(<<"initial", "never", "when_needed">>))),
        config_field("slot.name", "PostgreSQL replication slot name", "string", FALSE, NoneOpt),
        config_field("plugin.name", "PostgreSQL logical decoding plugin", "string", FALSE,
                     SomeOpt(strings(<<"pgoutput", "wal2json">>))),
        config_field("table.include.list", "Comma-separated list of tables to include",
                     "string", FALSE, NoneOpt),
        config_field("table.exclude.list", "Comma-separated list of tables to exclude",
                     "string", FALSE, NoneOpt),
        config_field("poll.interval.ms", "Polling interval in milliseconds", "long", FALSE,
                     NoneOpt),
        config_field("max.batch.size", "Maximum number of records in a single batch", "int",
                     FALSE, NoneOpt)>>,
     sensitive_configs |-> <<"database.password">>]

mysql_cdc_source_v2 ==
    [name |-> "MySqlCdcSourceV2",
     display_name |-> "MySQL CDC Source V2 (Debezium)",
     connector_class |-> "MySqlCdcSourceV2",
     connector_type |-> "Source",
     description |-> "Capture change data from MySQL databases (V2)",
     required_configs |-> <<
        config_field("database.hostname", "Database hostname", "string", TRUE,
                     NoneOpt),
        config_field("database.port", "Database port", "int", TRUE,
                     NoneOpt),
        config_field("database.user", "Database username", "string", TRUE,
                     NoneOpt),
        config_field("database.server.name", "Logical name for the MySQL server", "string", TRUE,
                     NoneOpt)>>,
     optional_configs |-> <<
        config_field("database.ssl.mode", "SSL mode for database connection", "string", FALSE,
                     SomeOpt(strings(<<"disabled", "preferred", "required", "verify-ca", "verify-identity">>))),
        config_field("snapshot.mode", "Snapshot mode for initial data capture", "string", FALSE,
                     SomeOpt(strings(<<"initial", "never", "when_needed", "schema_only">>))),
        config_field("binlog.buffer.size", "Size of the buffer used for binlog events", "int", FALSE,
                     NoneOpt),
        config_field("max.batch.size", "Maximum number of records in a single batch", "int", FALSE,
                     NoneOpt),
        config_field("max.queue.size", "Maximum number of records to queue", "int", FALSE,
                     NoneOpt),
        config_field("table.include.list", "Comma-separated list of tables to include", "string", FALSE,
                     NoneOpt),
        config_field("table.exclude.list", "Comma-separated list of tables to exclude", "string", FALSE,
                     NoneOpt),
        config_field("poll.interval.ms", "Polling interval in milliseconds", "long", FALSE,
                     NoneOpt),
        config_field("connect.timeout.ms", "Connection timeout in milliseconds", "long", FALSE,
                     NoneOpt),
        config_field("socket.timeout.ms", "Socket timeout in milliseconds", "long", FALSE,
                     NoneOpt)>>,
     sensitive_configs |-> <<"database.password">>]

postgresql_source ==
    [name |-> "PostgreSQLSource",
     display_name |-> "PostgreSQL Source (JDBC)",
     connector_class |-> "PostgreSQLSource",
     connector_type |-> "Source",
     description |-> "Read data from PostgreSQL databases",
     required_configs |-> <<
        config_field("connection.host", "Database hostname", "string", TRUE,
                     NoneOpt),
        config_field("connection.port", "Database port", "int", TRUE,
                     NoneOpt),
        config_field("connection.user", "Database username", "string", TRUE,
                     NoneOpt),
        config_field("db.name", "Database name", "string", TRUE,
                     NoneOpt)>>,
     optional_configs |-> <<
        config_field("ssl.mode", "SSL mode for database connection", "string", FALSE,
                     SomeOpt(strings(<<"disable", "prefer", "require", "verify-ca", "verify-full">>))),
        config_field("table.whitelist", "Comma-separated list of tables to include", "string", FALSE,
                     NoneOpt),
        config_field("table.blacklist", "Comma-separated list of tables to exclude", "string", FALSE,
                     NoneOpt),
        config_field("mode", "Incremental mode", "string", FALSE,
                     SomeOpt(strings(<<"bulk", "timestamp", "incrementing">>))),
        config_field("poll.interval.ms", "Polling interval in milliseconds", "long", FALSE,
                     NoneOpt),
        config_field("db.timezone", "Database timezone", "string", FALSE,
                     NoneOpt),
        config_field("table.types", "Table types to include", "string", FALSE,
                     SomeOpt(strings(<<"TABLE", "VIEW">>))),
        config_field("query", "Custom query to execute", "string", FALSE,
                     NoneOpt)>>,
     sensitive_configs |-> <<"connection.password">>]

mysql_source ==
    [name |-> "MySQLSource",
     display_name |-> "MySQL Source (JDBC)",
     connector_class |-> "MySQLSource",
     connector_type |-> "Source",
     description |-> "Read data from MySQL databases",
     required_configs |-> <<
        config_field("connection.host", "Database hostname", "string", TRUE,
                     NoneOpt),
        config_field("connection.port", "Database port", "int", TRUE,
                     NoneOpt),
        config_field("connection.user", "Database username", "string", TRUE,
                     NoneOpt),
        config_field("db.name", "Database name", "string", TRUE,
                     NoneOpt),
        config_field("table.whitelist", "Comma-separated list of tables to include", "string", TRUE,
                     NoneOpt)>>,
     optional_configs |-> <<
        config_field("connection.password", "Database password", "string", FALSE,
                     NoneOpt),
        config_field("connection.sslmode", "SSL mode for database connection", "string", FALSE,
                     SomeOpt(strings(<<"disable", "require", "verify-ca", "verify-full", "prefer">>))),
        config_field("poll.interval.ms", "Polling interval in milliseconds", "long", FALSE,
                     NoneOpt),
        config_field("max.records", "Maximum number of records to fetch", "int", FALSE,
                     NoneOpt),
        config_field("table.blacklist", "Comma-separated list of tables to exclude", "string", FALSE,
                     NoneOpt),
        config_field("query", "Custom SQL query", "string", FALSE,
                     NoneOpt),
        config_field("incrementing.column.name", "Incrementing column name", "string", FALSE,
                     NoneOpt)>>,
     sensitive_configs |-> <<"connection.password">>]

\* the hand-built definition of the generator's unit tests
create_test_connector ==
    [name |-> "PostgresSink",
     display_name |-> "PostgreSQL Sink",
     connector_class |-> "io.confluent.connect.jdbc.JdbcSinkConnector",
     connector_type |-> "Sink",
     description |-> "PostgreSQL Sink Connector",
     required_configs |-> <<>>,
     optional_configs |-> <<>>,
     sensitive_configs |-> <<"password">>]

\* the hand-built definitions of test_add_connector_specific_config_s3 and
\* test_add_connector_specific_config_unknown
s3_sink_test_connector ==
    [name |-> "S3_SINK",
     display_name |-> "S3 Sink",
     connector_class |-> "io.confluent.connect.s3.S3SinkConnector",
     connector_type |-> "Sink",
     description |-> "S3 Sink Connector",
     required_configs |-> <<>>,
     optional_configs |-> <<>>,
     sensitive_configs |-> <<>>]

unknown_test_connector ==
    [name |-> "UnknownConnector",
     display_name |-> "Unknown Connector",
     connector_class |-> "com.example.UnknownConnector",
     connector_type |-> "Source",
     description |-> "Unknown Connector",
     required_configs |-> <<>>,
     optional_configs |-> <<>>,
     sensitive_configs |-> <<>>]

(***************************************************************************)
(* ConnectorDefinition::validate_config.                                   *)
(* The result is Ok or Err(message); a message is represented by its rule  *)
(* (kind) and the texts formatted into it.                                 *)
(***************************************************************************)
OkResult == [kind |-> "Ok", field |-> "", value |-> <<>>, valid |-> <<>>]
MissingErr(name) ==
    [kind |-> "Missing required configuration", field |-> name, value |-> <<>>, valid |-> <<>>]
MisplacedErr(name) ==
    [kind |-> "should be in config_sensitive block", field |-> name, value |-> <<>>,
     valid |-> <<>>]
InvalidErr(value, key, valid_values) ==
    [kind |-> "Invalid value", field |-> key, value |-> value, valid |-> valid_values]

\* mutant of all_config: the sensitive map is never merged in
all_config_without_sensitive(config_nonsensitive, config_sensitive) ==
    config_nonsensitive

\* mutant of all_config: on a key of both maps the non-sensitive value is kept
all_config_nonsensitive_wins(config_nonsensitive, config_sensitive) ==
    map_extend(config_sensitive, config_nonsensitive)

\* let mut all_config = config_nonsensitive.clone(); all_config.extend(config_sensitive.clone())
all_config(config_nonsensitive, config_sensitive) ==
    map_extend(config_nonsensitive, config_sensitive)

\* indexes of the required fields the first loop would reject
missing_required(self, all) ==
    {i \in DOMAIN self.required_configs : ~contains_key(all, self.required_configs[i].name)}

\* mutant of misplaced_sensitive: the is_empty test is lost
misplaced_sensitive_any_value(self, config_nonsensitive) ==
    {i \in DOMAIN self.sensitive_configs :
        contains_key(config_nonsensitive, self.sensitive_configs[i])}

\* indexes of the sensitive names the second loop would reject
misplaced_sensitive(self, config_nonsensitive) ==
    {i \in DOMAIN self.sensitive_configs :
        /\ contains_key(config_nonsensitive, self.sensitive_configs[i])
        /\ ~is_empty(config_nonsensitive[self.sensitive_configs[i]])}

\* required_configs.iter().chain(optional_configs.iter()).find(|f| &f.name == key)
find_field(self, key) ==
    LET fields == self.required_configs \o self.optional_configs
        hits == {i \in DOMAIN fields : fields[i].name = key}
    IN IF hits = {} THEN NoneOpt ELSE SomeOpt(fields[MinOf(hits)])

\* keys of the merged map the third loop would reject
invalid_values(self, all) ==
    {key \in DOMAIN all :
        LET field == find_field(self, key)
        IN /\ is_some(field)
           /\ is_some(unwrap(field).valid_values)
           /\ all[key] \notin Range(unwrap(unwrap(field).valid_values))}

\* mutant of validate_config: a key that names no field is rejected
validate_config_rejects_unknown(self, config_nonsensitive, config_sensitive) ==
    LET all == all_config(config_nonsensitive, config_sensitive)
        missing == missing_required(self, all)
        misplaced == misplaced_sensitive(self, config_nonsensitive)
        invalid == invalid_values(self, all)
        unknown == {key \in DOMAIN all : ~is_some(find_field(self, key))}
    IN IF missing # {}
       THEN {MissingErr(self.required_configs[MinOf(missing)].name)}
       ELSE IF misplaced # {}
       THEN {MisplacedErr(self.sensitive_configs[MinOf(misplaced)])}
       ELSE IF invalid # {}
       THEN {InvalidErr(all[key], key,
                        unwrap(unwrap(find_field(self, key)).valid_values)) : key \in invalid}
       ELSE IF unknown # {}
       THEN {InvalidErr(all[key], key, <<>>) : key \in unknown}
       ELSE {OkResult}

\* mutant of validate_config: the field values are validated before the
\* sensitive names are looked for
validate_config_values_first(self, config_nonsensitive, config_sensitive) ==
    LET all == all_config(config_nonsensitive, config_sensitive)
        missing == missing_required(self, all)
        misplaced == misplaced_sensitive(self, config_nonsensitive)
        invalid == invalid_values(self, all)
    IN IF missing # {}
       THEN {MissingErr(self.required_configs[MinOf(missing)].name)}
       ELSE IF invalid # {}
       THEN {InvalidErr(all[key], key,
                        unwrap(unwrap(find_field(self, key)).valid_values)) : key \in invalid}
       ELSE IF misplaced # {}
       THEN {MisplacedErr(self.sensitive_configs[MinOf(misplaced)])}
       ELSE {OkResult}

\* The set of results a call can return.  The third loop walks a HashMap,
\* whose iteration order is unspecified: with several invalid values any of
\* them can be the one reported.
validate_config(self, config_nonsensitive, config_sensitive) ==
    LET all == all_config(config_nonsensitive, config_sensitive)
        missing == missing_required(self, all)
        misplaced == misplaced_sensitive(self, config_nonsensitive)
        invalid == invalid_values(self, all)
    IN IF missing # {}
       THEN {MissingErr(self.required_configs[MinOf(missing)].name)}
       ELSE IF misplaced # {}
       THEN {MisplacedErr(self.sensitive_configs[MinOf(misplaced)])}
       ELSE IF invalid # {}
       THEN {InvalidErr(all[key], key,
                        unwrap(unwrap(find_field(self, key)).valid_values)) : key \in invalid}
       ELSE {OkResult}

(***************************************************************************)
(* The hcl library as the program uses it: identifiers, expressions,       *)
(* objects, bodies and blocks.                                             *)
(***************************************************************************)
\* the texts handed to make_object_key, or listed in sensitive_configs, that
\* hold a '.'
DottedTexts ==
    {"after.state.only", "auto.create", "auto.evolve", "batch.sizes",
     "bigint.unsigned.handling.mode", "binary.handling.mode", "binlog.buffer.size",
     "cleanup.policy", "compression.codec", "connect.timeout.ms", "connection.host",
     "connection.password", "connection.port", "connection.user", "connector.class",
     "database.dbname", "database.hostname", "database.password", "database.port",
     "database.server.name", "database.ssl.mode", "database.sslmode", "database.user",
     "db.name", "db.timezone", "decimal.handling.mode",
     "event.processing.failure.handling.mode", "flush.size", "heartbeat.interval.ms",
     "hstore.handling.mode", "input.data.format", "insert.mode", "interval.handling.mode",
     "kafka.auth.mode", "kafka.deployment.type", "kafka.max.partition.validation.disable",
     "max.batch.size", "max.poll.records", "max.queue.size", "mqtt.password",
     "output.data.format", "output.key.format", "path.format", "pk.fields", "pk.mode",
     "plugin.name", "poll.interval.ms", "provide.transaction.metadata",
     "publication.autocreate.mode", "publication.name", "rotate.interval.ms",
     "rotate.schedule.interval.ms", "s3.bucket.name", "s3.compression.level",
     "s3.part.size", "s3.wan.mode", "schema.refresh.mode", "slot.name", "snapshot.mode",
     "socket.timeout.ms", "ssl.mode", "table.name.format", "table.types", "table.whitelist",
     "tasks.max", "time.interval", "time.precision.mode", "tombstones.on.delete",
     "topic.prefix", "topics.dir"}
\* str::contains('.')
contains_dot(text) == text \in DottedTexts

\* str::split('.'): the parts of a text that holds no '.' are the text itself
split_dot(text) == <<text>>

\* Identifier::new accepts a text that is a valid HCL identifier; of the
\* texts the model uses these are not
InvalidIdentifiers == {"", "api key"}
is_ident(text) == text \notin InvalidIdentifiers

\* Identifier::sanitized: every character no identifier may hold becomes '_'
sanitized(text) == IF text = "api key" THEN "api_key" ELSE IF text = "" THEN "_" ELSE text

\* str::replace(from, to), character by character
replace(s, from, to) == [i \in DOMAIN s |-> IF s[i] = from THEN to ELSE s[i]]

\* Option::unwrap_or
unwrap_or(o, default) == IF is_some(o) THEN unwrap(o) ELSE default

\* hcl::Expression
ExprString(s) == [t |-> "String", s |-> s]
ExprNumber(text) == [t |-> "Number", text |-> text]
ExprBool(b) == [t |-> "Bool", b |-> b]
ExprArray(elems) == [t |-> "Array", elems |-> elems]
ExprObject(entries) == [t |-> "Object", entries |-> entries]
ExprVariable(name) == [t |-> "Variable", name |-> name]
ExprFuncCall(name, args) == [t |-> "FuncCall", name |-> name, args |-> args]
ExprTraversal(root, attrs) == [t |-> "Traversal", root |-> root, attrs |-> attrs]

\* hcl::ObjectKey
ObjectKeyIdentifier(text) == [k |-> "Identifier", text |-> text]
ObjectKeyExpression(text) == [k |-> "Expression", text |-> text]

\* Object::insert: the value of a present key is replaced where it stands,
\* a new key is appended
object_insert(obj, key, value) ==
    IF \E i \in DOMAIN obj : obj[i].key = key
    THEN [i \in DOMAIN obj |-> IF obj[i].key = key THEN [key |-> key, value |-> value]
                                                  ELSE obj[i]]
    ELSE Append(obj, [key |-> key, value |-> value])

\* a run of Object::insert calls, in order
RECURSIVE insert_all(_, _)
insert_all(obj, entries) ==
    IF entries = <<>> THEN obj
    ELSE insert_all(object_insert(obj, entries[1].key, entries[1].value), Tail(entries))

\* Object::contains_key and Object::get
object_contains_key(obj, key) == \E i \in DOMAIN obj : obj[i].key = key
object_get(obj, key) == obj[CHOOSE i \in DOMAIN obj : obj[i].key = key].value

\* hcl::Attribute, hcl::Block: the structures of a Body, in order
Attribute(key, expr) == [s |-> "Attribute", key |-> key, expr |-> expr]
Block(identifier, labels, body) ==
    [s |-> "Block", identifier |-> identifier, labels |-> labels, body |-> body]

SelectSeq2(seq, kind) == SelectSeq(seq, LAMBDA x : x.s = kind)
\* Body::attributes, Body::blocks
attributes(body) == SelectSeq2(body, "Attribute")
blocks(body) == SelectSeq2(body, "Block")

(***************************************************************************)
(* types.rs: DataFormat.                                                   *)
(***************************************************************************)
DataFormats == {"Avro", "Json", "JsonSr", "Protobuf", "Parquet"}

to_terraform_value(format) ==
    CASE format = "Avro" -> "AVRO"
      [] format = "Json" -> "JSON"
      [] format = "JsonSr" -> "JSON_SR"
      [] format = "Protobuf" -> "PROTOBUF"
      [] format = "Parquet" -> "PARQUET"

(***************************************************************************)
(* terraform.rs: TerraformGenerator.                                       *)
(***************************************************************************)
data_format_to_expression(format) ==
    LET terraform_value == to_terraform_value(format)
        parts == split_dot(terraform_value)
    IN IF Len(parts) >= 2
       THEN IF is_ident(parts[1])
            THEN ExprTraversal(ExprVariable(parts[1]), Tail(parts))
            ELSE ExprString(S(terraform_value))
       ELSE ExprString(S(terraform_value))

make_object_key(s) ==
    IF contains_dot(s)
    THEN ObjectKeyExpression(s)
    ELSE ObjectKeyIdentifier(IF is_ident(s) THEN s ELSE sanitized(s))

\* an (ObjectKey, Expression) pair handed to Object::insert
Entry(key, expr) == [key |-> make_object_key(key), value |-> expr]
KV(key, literal) == Entry(key, ExprString(S(literal)))


\* the "PostgresCdcSourceV2" arm
postgres_cdc_source_v2_config(options) ==
    <<KV("database.hostname", "<REPLACE_WITH_DATABASE_HOST>"),
      KV("database.port", "5432"),
      KV("database.user", "<REPLACE_WITH_DATABASE_USER>"),
      KV("database.dbname", "<REPLACE_WITH_DATABASE_NAME>"),
      KV("database.sslmode", "require"),
      KV("publication.name", "dbz_publication"),
      KV("publication.autocreate.mode", "filtered"),
      KV("snapshot.mode", "initial"),
      KV("tombstones.on.delete", "true"),
      KV("plugin.name", "pgoutput"),
      KV("slot.name", "dbz"),
      KV("poll.interval.ms", "1000"),
      KV("max.batch.size", "1000"),
      KV("event.processing.failure.handling.mode", "fail"),
      KV("heartbeat.interval.ms", "0"),
      KV("provide.transaction.metadata", "false"),
      KV("decimal.handling.mode", "precise"),
      KV("binary.handling.mode", "bytes"),
      KV("time.precision.mode", "adaptive"),
      KV("cleanup.policy", "delete"),
      KV("hstore.handling.mode", "json"),
      KV("interval.handling.mode", "numeric"),
      KV("schema.refresh.mode", "columns_diff"),
      KV("after.state.only", "false"),
      Entry("output.key.format", data_format_to_expression("Avro"))>>

\* the "MySqlCdcSourceV2" arm
mysql_cdc_source_v2_config(options) ==
    <<KV("database.server.name", "<REPLACE_WITH_SERVER_NAME>"),
      KV("database.ssl.mode", "preferred"),
      KV("snapshot.mode", "initial"),
      KV("binlog.buffer.size", "8192"),
      KV("max.batch.size", "2048"),
      KV("max.queue.size", "8192"),
      KV("poll.interval.ms", "1000"),
      KV("connect.timeout.ms", "30000"),
      KV("socket.timeout.ms", "30000"),
      KV("heartbeat.interval.ms", "0"),
      KV("provide.transaction.metadata", "false"),
      KV("decimal.handling.mode", "precise"),
      KV("bigint.unsigned.handling.mode", "long"),
      KV("binary.handling.mode", "bytes"),
      KV("time.precision.mode", "adaptive"),
      KV("cleanup.policy", "delete"),
      KV("schema.refresh.mode", "columns_diff"),
      KV("after.state.only", "false"),
      Entry("output.key.format", data_format_to_expression("Avro"))>>

\* the "S3_SINK" arm
s3_sink_config(options) ==
    <<KV("s3.bucket.name", "<REPLACE_WITH_BUCKET_NAME>"),
      KV("s3.wan.mode", "false"),
      Entry("input.data.format",
             data_format_to_expression(unwrap_or(options.input_data_format, "Avro"))),
      Entry("output.data.format",
             data_format_to_expression(unwrap_or(options.output_data_format, "Parquet"))),
      KV("topics.dir", "<REPLACE_WITH_TOPICS_DIR>"),
      KV("path.format", "'effective_date'=YYYY-MM-dd"),
      KV("time.interval", "HOURLY"),
      KV("rotate.schedule.interval.ms", "3600000"),
      KV("rotate.interval.ms", "3600000"),
      KV("flush.size", "100000"),
      KV("compression.codec", "PARQUET - gzip"),
      KV("s3.compression.level", "6"),
      KV("s3.part.size", "5242880"),
      KV("kafka.max.partition.validation.disable", "false")>>

\* the "PostgreSQLSource" arm
postgresql_source_config(options) ==
    <<KV("connection.host", "<REPLACE_WITH_DB_HOST>"),
      KV("connection.port", "5432"),
      KV("connection.user", "<REPLACE_WITH_DB_USER>"),
      KV("db.name", "<REPLACE_WITH_DB_NAME>"),
      KV("ssl.mode", "prefer"),
      KV("table.whitelist", "<REPLACE_WITH_TABLE_LIST>"),
      KV("mode", "timestamp"),
      KV("poll.interval.ms", "5000"),
      KV("db.timezone", "UTC"),
      KV("table.types", "TABLE")>>

\* the "PostgresSink" arm
postgres_sink_config(options) ==
    <<KV("connection.host", "<REPLACE_WITH_DB_HOST>"),
      KV("connection.port", "5432"),
      KV("connection.user", "<REPLACE_WITH_DB_USER>"),
      KV("db.name", "<REPLACE_WITH_DB_NAME>"),
      KV("ssl.mode", "prefer"),
      KV("insert.mode", "UPSERT"),
      KV("table.name.format", "<REPLACE_WITH_TABLE_FORMAT>"),
      KV("table.types", "TABLE"),
      KV("db.timezone", "UTC"),
      KV("pk.mode", "record_value"),
      KV("pk.fields", "<REPLACE_WITH_PK_FIELDS>"),
      KV("auto.create", "false"),
      KV("auto.evolve", "false"),
      KV("batch.sizes", "5000"),
      KV("max.poll.records", "2500")>>

\* the "MySQLSource" arm
mysql_source_config(options) ==
    <<KV("connection.host", "<REPLACE_WITH_DB_HOST>"),
      KV("connection.port", "3306"),
      KV("connection.user", "<REPLACE_WITH_DB_USER>"),
      KV("db.name", "<REPLACE_WITH_DB_NAME>"),
      KV("ssl.mode", "preferred"),
      KV("table.whitelist", "<REPLACE_WITH_TABLE_LIST>"),
      KV("mode", "timestamp"),
      KV("poll.interval.ms", "5000"),
      KV("db.timezone", "UTC"),
      KV("table.types", "TABLE")>>

\* the "MySQLSink" arm
mysql_sink_config(options) ==
    <<KV("connection.host", "<REPLACE_WITH_DB_HOST>"),
      KV("connection.port", "3306"),
      KV("connection.user", "<REPLACE_WITH_DB_USER>"),
      KV("db.name", "<REPLACE_WITH_DB_NAME>"),
      KV("ssl.mode", "preferred"),
      KV("insert.mode", "UPSERT"),
      KV("table.name.format", "<REPLACE_WITH_TABLE_FORMAT>"),
      KV("table.types", "TABLE"),
      KV("db.timezone", "UTC"),
      KV("pk.mode", "record_value"),
      KV("pk.fields", "<REPLACE_WITH_PK_FIELDS>"),
      KV("auto.create", "false"),
      KV("auto.evolve", "false"),
      KV("batch.sizes", "5000"),
      KV("max.poll.records", "2500")>>

\* an add_connector_specific_config_to_object whose default arm writes a
\* generic entry
add_connector_specific_config_generic(config_obj, connector_def, options) ==
    IF connector_def.name = "S3_SINK"
    THEN insert_all(config_obj, s3_sink_config(options))
    ELSE insert_all(config_obj, <<KV("connector.generic", "true")>>)

\* add_connector_specific_config_to_object: the object after the call, which
\* always returns Ok(())
add_connector_specific_config_to_object(config_obj, connector_def, options) ==
    CASE connector_def.name = "PostgresCdcSourceV2" ->
            insert_all(config_obj, postgres_cdc_source_v2_config(options))
      [] connector_def.name = "MySqlCdcSourceV2" ->
            insert_all(config_obj, mysql_cdc_source_v2_config(options))
      [] connector_def.name = "S3_SINK" ->
            insert_all(config_obj, s3_sink_config(options))
      [] connector_def.name = "PostgreSQLSource" ->
            insert_all(config_obj, postgresql_source_config(options))
      [] connector_def.name = "PostgresSink" ->
            insert_all(config_obj, postgres_sink_config(options))
      [] connector_def.name = "MySQLSource" ->
            insert_all(config_obj, mysql_source_config(options))
      [] connector_def.name = "MySQLSink" ->
            insert_all(config_obj, mysql_sink_config(options))
      [] OTHER -> config_obj

\* the Result of generate_connector_config
GenOk(text) == [ok |-> TRUE, text |-> text, err |-> ""]
GenErr(kind, detail) == [ok |-> FALSE, text |-> <<>>, err |-> kind, detail |-> detail]

\* a resource_name that keeps the '-' of the connector name
resource_name_unsanitized(options) == options.connector_name

\* let resource_name = options.connector_name.replace('-', "_")
resource_name(options) == replace(options.connector_name, "-", "_")

\* a sensitive-name check that lets every name through
invalid_sensitive_none(options) == {}

\* positions of the sensitive names Identifier::new rejects
invalid_sensitive(options) ==
    {i \in DOMAIN options.connector.sensitive_configs :
        /\ ~contains_dot(options.connector.sensitive_configs[i])
        /\ ~is_ident(options.connector.sensitive_configs[i])}

\* a sensitive key that is always a bare identifier
sensitive_key_bare(sensitive_config) == ObjectKeyIdentifier(sensitive_config)

\* the key of a sensitive name
sensitive_key(sensitive_config) ==
    IF contains_dot(sensitive_config)
    THEN ObjectKeyExpression(sensitive_config)
    ELSE ObjectKeyIdentifier(sensitive_config)

\* config_sensitive_obj once the loop over sensitive_configs has ended
config_sensitive_obj(options) ==
    insert_all(<<>>,
               [i \in DOMAIN options.connector.sensitive_configs |->
                   [key |-> sensitive_key(options.connector.sensitive_configs[i]),
                    value |-> ExprString(S("<REPLACE_WITH_ACTUAL_VALUE>"))]])

\* the four entries config_nonsensitive_obj starts with
base_config(options) ==
    <<Entry("connector.class", ExprString(S(options.connector.connector_class))),
      Entry("name", ExprString(options.connector_name)),
      KV("kafka.auth.mode", "SERVICE_ACCOUNT"),
      KV("kafka.deployment.type", "DEDICATED")>>

\* join(",", [topics])
join_expr(options) ==
    ExprFuncCall("join",
                 <<ExprString(S(",")),
                   ExprArray([i \in DOMAIN options.topics |-> ExprString(options.topics[i])])>>)

\* required_configs.iter().any(|config| config.name == "topic.prefix")
requires_topic_prefix(connector) ==
    \E i \in DOMAIN connector.required_configs :
        connector.required_configs[i].name = "topic.prefix"

\* a topics section that never writes the topic.prefix placeholder next to
\* the topics
topics_config_without_prefix(options) ==
    IF Len(options.topics) = 0
    THEN IF options.connector.connector_type = "Sink"
         THEN <<KV("topics", "<REPLACE_WITH_TOPIC_NAME>")>>
         ELSE <<KV("topic.prefix", "<REPLACE_WITH_TOPIC_PREFIX>")>>
    ELSE <<Entry("topics", join_expr(options))>>

\* the entries of the topics section
topics_config(options) ==
    IF Len(options.topics) = 0
    THEN IF options.connector.connector_type = "Sink"
         THEN <<KV("topics", "<REPLACE_WITH_TOPIC_NAME>")>>
         ELSE <<KV("topic.prefix", "<REPLACE_WITH_TOPIC_PREFIX>")>>
    ELSE (IF requires_topic_prefix(options.connector)
          THEN <<KV("topic.prefix", "<REPLACE_WITH_TOPIC_PREFIX>")>>
          ELSE <<>>)
         \o <<Entry("topics", join_expr(options))>>

\* the two entries config_nonsensitive_obj ends with
final_config(options) ==
    <<Entry("output.data.format",
            data_format_to_expression(unwrap_or(options.output_data_format, "Avro"))),
      KV("tasks.max", "1")>>

\* config_nonsensitive_obj when the resource block is built
config_nonsensitive_obj(options) ==
    insert_all(
        add_connector_specific_config_to_object(
            insert_all(<<>>, base_config(options) \o topics_config(options)),
            options.connector, options),
        final_config(options))

var_traversal(attrs) == ExprTraversal(ExprVariable("var"), attrs)

\* a resource block without the status attribute
resource_block_without_status(options) ==
    Block("resource", <<S("confluent_connector"), resource_name(options)>>,
          <<Block("environment", <<>>,
                  <<Attribute("id", var_traversal(<<"environment_id">>))>>),
            Block("kafka_cluster", <<>>,
                  <<Attribute("id", var_traversal(<<"kafka_cluster", "id">>))>>),
            Attribute("config_sensitive", ExprObject(config_sensitive_obj(options))),
            Attribute("config_nonsensitive", ExprObject(config_nonsensitive_obj(options))),
            Block("lifecycle", <<>>, <<>>)>>)

\* the resource block
resource_block(options) ==
    Block("resource", <<S("confluent_connector"), resource_name(options)>>,
          <<Attribute("status", var_traversal(<<"status">>)),
            Block("environment", <<>>,
                  <<Attribute("id", var_traversal(<<"environment_id">>))>>),
            Block("kafka_cluster", <<>>,
                  <<Attribute("id", var_traversal(<<"kafka_cluster", "id">>))>>),
            Attribute("config_sensitive", ExprObject(config_sensitive_obj(options))),
            Attribute("config_nonsensitive", ExprObject(config_nonsensitive_obj(options))),
            Block("lifecycle", <<>>,
                  <<Attribute("ignore_changes",
                      ExprArray(<<
                        ExprString(S("config_nonsensitive[\"kafka.deployment.type\"]")),
                        ExprString(S("config_nonsensitive[\"kafka.max.partition.validation.disable\"]")),
                        ExprString(S("config_nonsensitive[\"kafka.max.partition.validation.enable\"]")),
                        ExprString(S("config_nonsensitive[\"kafka.max.partition.validation\"]"))>>))>>)>>)

(***************************************************************************)
(* Text.  A document is the sequence of its top-level elements as written: *)
(* comment lines, blank lines, text that is no HCL, attributes and blocks. *)
(* An object key is written bare or quoted, a block label quoted.          *)
(* hcl::to_string writes a Body; hcl::from_str reads a text, drops the     *)
(* comments and the blank lines and fails on text that is no HCL.          *)
(***************************************************************************)
CommentLine == [s |-> "Comment"]
BlankLine == [s |-> "Blank"]
InvalidText == [s |-> "Invalid"]

WrittenKey(quoted, text) == [quoted |-> quoted, text |-> text]

format_key(key) == WrittenKey(key.k = "Expression", key.text)
parse_key(written) ==
    IF written.quoted THEN ObjectKeyExpression(written.text)
    ELSE ObjectKeyIdentifier(written.text)

RECURSIVE format_expr(_)
format_expr(expr) ==
    CASE expr.t = "Object" ->
            [t |-> "Object",
             entries |-> [i \in DOMAIN expr.entries |->
                            [key |-> format_key(expr.entries[i].key),
                             value |-> format_expr(expr.entries[i].value)]]]
      [] expr.t = "Array" ->
            [t |-> "Array", elems |-> [i \in DOMAIN expr.elems |-> format_expr(expr.elems[i])]]
      [] expr.t = "FuncCall" ->
            [t |-> "FuncCall", name |-> expr.name,
             args |-> [i \in DOMAIN expr.args |-> format_expr(expr.args[i])]]
      [] OTHER -> expr

RECURSIVE parse_expr(_)
parse_expr(written) ==
    CASE written.t = "Object" ->
            ExprObject([i \in DOMAIN written.entries |->
                          [key |-> parse_key(written.entries[i].key),
                           value |-> parse_expr(written.entries[i].value)]])
      [] written.t = "Array" ->
            ExprArray([i \in DOMAIN written.elems |-> parse_expr(written.elems[i])])
      [] written.t = "FuncCall" ->
            ExprFuncCall(written.name,
                         [i \in DOMAIN written.args |-> parse_expr(written.args[i])])
      [] OTHER -> written

RECURSIVE format_body(_)
format_body(body) ==
    [i \in DOMAIN body |->
        IF body[i].s = "Attribute"
        THEN [s |-> "Attribute", key |-> body[i].key, expr |-> format_expr(body[i].expr)]
        ELSE [s |-> "Block", identifier |-> body[i].identifier,
              labels |-> [j \in DOMAIN body[i].labels |-> WrittenKey(TRUE, body[i].labels[j])],
              body |-> format_body(body[i].body)]]

\* hcl::to_string(&body)
to_string(body) == format_body(body)

RECURSIVE well_formed(_)
well_formed(text) ==
    \A i \in DOMAIN text :
        /\ text[i].s # "Invalid"
        /\ text[i].s = "Block" => well_formed(text[i].body)

RECURSIVE parse_body(_)
parse_body(text) ==
    LET kept == SelectSeq(text, LAMBDA e : e.s \in {"Attribute", "Block"})
    IN [i \in DOMAIN kept |->
          IF kept[i].s = "Attribute"
          THEN Attribute(kept[i].key, parse_expr(kept[i].expr))
          ELSE Block(kept[i].identifier,
                     [j \in DOMAIN kept[i].labels |-> kept[i].labels[j].text],
                     parse_body(kept[i].body))]

\* hcl::from_str(text): Ok(body), or Err
from_str(text) ==
    IF well_formed(text) THEN [ok |-> TRUE, body |-> parse_body(text)]
    ELSE [ok |-> FALSE, body |-> <<>>]

\* generate_connector_config
generate_connector_config(options) ==
    IF invalid_sensitive(options) # {}
    THEN GenErr("Terraform: Invalid identifier",
                options.connector.sensitive_configs[MinOf(invalid_sensitive(options))])
    ELSE GenOk(to_string(<<resource_block(options)>>))

(***************************************************************************)
(* app.rs: the extractor and the parser.                                   *)
(***************************************************************************)
\* [String]::join(sep)
RECURSIVE join(_, _)
join(values, sep) ==
    IF Len(values) = 0 THEN <<>>
    ELSE IF Len(values) = 1 THEN values[1]
    ELSE values[1] \o sep \o join(Tail(values), sep)

\* iter().filter_map(f).collect() over the Options f gave
RECURSIVE filter_map(_)
filter_map(options_seq) ==
    IF options_seq = <<>> THEN <<>>
    ELSE (IF is_some(options_seq[1]) THEN <<unwrap(options_seq[1])>> ELSE <<>>)
         \o filter_map(Tail(options_seq))

\* an extractor that joins the first array among the arguments of join
RECURSIVE extract_string_joins_any_array(_)
extract_string_joins_any_array(expr) ==
    CASE expr.t = "String" -> SomeOpt(expr.s)
      [] expr.t = "Variable" -> SomeOpt(<<"var.", expr.name>>)
      [] expr.t = "FuncCall" ->
            IF expr.name = "join" /\ \E k \in DOMAIN expr.args : expr.args[k].t = "Array"
            THEN LET arr == expr.args[MinOf({k \in DOMAIN expr.args : expr.args[k].t = "Array"})]
                 IN SomeOpt(join(filter_map([i \in DOMAIN arr.elems |->
                                    extract_string_joins_any_array(arr.elems[i])]),
                                 S(", ")))
            ELSE SomeOpt(<<expr.name, "(...)">>)
      [] expr.t = "Array" ->
            SomeOpt(<<"[">> \o join(filter_map([i \in DOMAIN expr.elems |->
                                       extract_string_joins_any_array(expr.elems[i])]),
                                    S(", ")) \o <<"]">>)
      [] expr.t = "Number" -> SomeOpt(S(expr.text))
      [] expr.t = "Bool" -> SomeOpt(S(IF expr.b THEN "true" ELSE "false"))
      [] OTHER -> NoneOpt

RECURSIVE extract_string_from_expression(_)
extract_string_from_expression(expr) ==
    CASE expr.t = "String" -> SomeOpt(expr.s)
      [] expr.t = "Variable" -> SomeOpt(<<"var.", expr.name>>)
      [] expr.t = "FuncCall" ->
            IF expr.name = "join" /\ Len(expr.args) > 0 /\ expr.args[1].t = "Array"
            THEN SomeOpt(join(filter_map([i \in DOMAIN expr.args[1].elems |->
                                 extract_string_from_expression(expr.args[1].elems[i])]),
                              S(", ")))
            ELSE SomeOpt(<<expr.name, "(...)">>)
      [] expr.t = "Array" ->
            SomeOpt(<<"[">> \o join(filter_map([i \in DOMAIN expr.elems |->
                                       extract_string_from_expression(expr.elems[i])]),
                                    S(", ")) \o <<"]">>)
      [] expr.t = "Number" -> SomeOpt(S(expr.text))
      [] expr.t = "Bool" -> SomeOpt(S(IF expr.b THEN "true" ELSE "false"))
      [] OTHER -> NoneOpt

\* HashMap::insert for every (key, value) of pairs, in order
RECURSIVE insert_pairs(_, _)
insert_pairs(map, pairs) ==
    IF pairs = <<>> THEN map
    ELSE insert_pairs(map_insert(map, pairs[1][1], pairs[1][2]), Tail(pairs))

\* the (key.to_string(), str_value) pairs of the entries whose value
\* extract_string_from_expression turns into a string
extracted_pairs(entries) ==
    filter_map([i \in DOMAIN entries |->
        IF is_some(extract_string_from_expression(entries[i].value))
        THEN SomeOpt(<<entries[i].key.text,
                       unwrap(extract_string_from_expression(entries[i].value))>>)
        ELSE NoneOpt])

\* an extractor that keeps an entry whose value gives no string, with the
\* empty string as its value
extract_map_keeps_unextracted(expr) ==
    IF expr.t = "Object"
    THEN SomeOpt(insert_pairs(EmptyMap,
            [i \in DOMAIN expr.entries |->
                <<expr.entries[i].key.text,
                  IF is_some(extract_string_from_expression(expr.entries[i].value))
                  THEN unwrap(extract_string_from_expression(expr.entries[i].value))
                  ELSE <<>>>>]))
    ELSE NoneOpt

extract_map_from_expression(expr) ==
    IF expr.t = "Object"
    THEN SomeOpt(insert_pairs(EmptyMap, extracted_pairs(expr.entries)))
    ELSE NoneOpt

\* what extract_config_from_block leaves in its three out-parameters
NoConfig ==
    [connector_class |-> <<>>, config_nonsensitive |-> EmptyMap, config_sensitive |-> EmptyMap]

extract_attr(acc, attr) ==
    LET map == extract_map_from_expression(attr.expr)
    IN IF attr.key = "config_nonsensitive" /\ is_some(map)
       THEN [acc EXCEPT
               !.connector_class = IF contains_key(unwrap(map), "connector.class")
                                   THEN unwrap(map)["connector.class"] ELSE @,
               !.config_nonsensitive = map_extend(@, unwrap(map))]
       ELSE IF attr.key = "config_sensitive" /\ is_some(map)
       THEN [acc EXCEPT !.config_sensitive = map_extend(@, unwrap(map))]
       ELSE acc

RECURSIVE extract_attrs(_, _)
extract_attrs(acc, attrs) ==
    IF attrs = <<>> THEN acc
    ELSE extract_attrs(extract_attr(acc, attrs[1]), Tail(attrs))

extract_config_from_block(body) == extract_attrs(NoConfig, attributes(body))

\* types.rs: ConnectorConfig
ConnectorConfig(name, extracted) ==
    [name |-> name,
     connector_class |-> extracted.connector_class,
     config |-> extracted.config_nonsensitive,
     sensitive_config |-> extracted.config_sensitive]

\* parse_terraform_configs that keeps a block without a connector class
block_configs_keep_classless(block) ==
    LET labels == block.labels
        extracted == extract_config_from_block(block.body)
    IN IF block.identifier = "resource"
       THEN IF Len(labels) >= 2 /\ labels[1] = S("confluent_connector")
            THEN <<ConnectorConfig(labels[2], extracted)>>
            ELSE <<>>
       ELSE IF block.identifier = "module"
       THEN <<ConnectorConfig(IF Len(labels) > 0 THEN labels[1] ELSE <<>>, extracted)>>
       ELSE <<>>

\* parse_terraform_configs that takes a resource of any type
block_configs_any_resource(block) ==
    LET labels == block.labels
        extracted == extract_config_from_block(block.body)
        pushed(name) == IF ~is_empty(extracted.connector_class)
                        THEN <<ConnectorConfig(name, extracted)>> ELSE <<>>
    IN IF block.identifier = "resource"
       THEN IF Len(labels) >= 2 THEN pushed(labels[2]) ELSE <<>>
       ELSE IF block.identifier = "module"
       THEN pushed(IF Len(labels) > 0 THEN labels[1] ELSE <<>>)
       ELSE <<>>

\* the records one pass of the loop over body.blocks() pushes
block_configs(block) ==
    LET labels == block.labels
        extracted == extract_config_from_block(block.body)
        pushed(name) == IF ~is_empty(extracted.connector_class)
                        THEN <<ConnectorConfig(name, extracted)>> ELSE <<>>
    IN IF block.identifier = "resource"
       THEN IF Len(labels) >= 2 /\ labels[1] = S("confluent_connector")
            THEN pushed(IF Len(labels) >= 2 THEN labels[2] ELSE <<>>)
            ELSE <<>>
       ELSE IF block.identifier = "module"
       THEN pushed(IF Len(labels) > 0 THEN labels[1] ELSE <<>>)
       ELSE <<>>

RECURSIVE connector_configs(_)
connector_configs(block_seq) ==
    IF block_seq = <<>> THEN <<>>
    ELSE block_configs(block_seq[1]) \o connector_configs(Tail(block_seq))

\* parse_terraform_configs: Ok(connector_configs), or Err(Config(..))
ParseOk(configs) == [ok |-> TRUE, configs |-> configs, err |-> ""]
ParseErr == [ok |-> FALSE, configs |-> <<>>, err |-> "Failed to parse Terraform file"]

parse_terraform_configs(terraform_content) ==
    LET body == from_str(terraform_content)
    IN IF body.ok THEN ParseOk(connector_configs(blocks(body.body))) ELSE ParseErr

(***************************************************************************)
(* app.rs: the structural validator.                                       *)
(***************************************************************************)
\* what validate_resource_block and validate_terraform_structure return:
\* Ok(()), or Err(Config(..)) with the text the message is formatted from
StructOk == [kind |-> "Ok", resource |-> <<>>, found |-> <<>>]
StructErr(kind, in_resource_name, found) ==
    [kind |-> kind, resource |-> in_resource_name, found |-> found]

\* a loop over body.attributes() that looks for a key
has_attribute(body, key) == \E i \in DOMAIN attributes(body) : attributes(body)[i].key = key

\* the block a loop over body.blocks() stops at: the first one of the identifier
has_block(body, identifier) ==
    \E i \in DOMAIN blocks(body) : blocks(body)[i].identifier = identifier
first_block(body, identifier) ==
    blocks(body)[MinOf({i \in DOMAIN blocks(body) : blocks(body)[i].identifier = identifier})]

\* environment_attrs: the keys of the attributes of the environment block
attribute_keys(body) == [i \in DOMAIN attributes(body) |-> attributes(body)[i].key]

\* a validate_resource_block that does not look into the kafka_cluster block
validate_resource_block_any_cluster(body, in_resource_name) ==
    IF ~has_attribute(body, "status")
    THEN StructErr("missing 'status' field", in_resource_name, <<>>)
    ELSE IF ~has_block(body, "environment")
    THEN StructErr("missing 'environment { id = ... }' block", in_resource_name, <<>>)
    ELSE IF ~has_attribute(first_block(body, "environment").body, "id")
    THEN StructErr("environment block must have 'id' attribute", in_resource_name,
                   attribute_keys(first_block(body, "environment").body))
    ELSE IF ~has_block(body, "kafka_cluster")
    THEN StructErr("missing 'kafka_cluster { id = ... }' block", in_resource_name, <<>>)
    ELSE IF ~has_attribute(body, "config_sensitive")
    THEN StructErr("missing 'config_sensitive' attribute", in_resource_name, <<>>)
    ELSE IF ~has_attribute(body, "config_nonsensitive")
    THEN StructErr("missing 'config_nonsensitive' attribute", in_resource_name, <<>>)
    ELSE StructOk

validate_resource_block(body, in_resource_name) ==
    IF ~has_attribute(body, "status")
    THEN StructErr("missing 'status' field", in_resource_name, <<>>)
    ELSE IF ~has_block(body, "environment")
    THEN StructErr("missing 'environment { id = ... }' block", in_resource_name, <<>>)
    ELSE IF ~has_attribute(first_block(body, "environment").body, "id")
    THEN StructErr("environment block must have 'id' attribute", in_resource_name,
                   attribute_keys(first_block(body, "environment").body))
    ELSE IF ~has_block(body, "kafka_cluster")
    THEN StructErr("missing 'kafka_cluster { id = ... }' block", in_resource_name, <<>>)
    ELSE IF ~has_attribute(first_block(body, "kafka_cluster").body, "id")
    THEN StructErr("kafka_cluster block must have 'id' attribute", in_resource_name, <<>>)
    ELSE IF ~has_attribute(body, "config_sensitive")
    THEN StructErr("missing 'config_sensitive' attribute", in_resource_name, <<>>)
    ELSE IF ~has_attribute(body, "config_nonsensitive")
    THEN StructErr("missing 'config_nonsensitive' attribute", in_resource_name, <<>>)
    ELSE StructOk

\* the resource blocks validate_terraform_structure counts
is_connector_resource(block) ==
    /\ block.identifier = "resource"
    /\ Len(block.labels) >= 2
    /\ block.labels[1] = S("confluent_connector")

\* what validate_terraform_structure did and returned: its Result, and the
\* value of connector_count when it returned
Scan(result, connector_count) ==
    [kind |-> result.kind, resource |-> result.resource, found |-> result.found,
     checked |-> connector_count]

\* a validate_terraform_structure that accepts a text without connector
\* resources
validate_terraform_structure_allows_none(terraform_content) ==
    LET parsed_body == from_str(terraform_content)
        resources == SelectSeq(blocks(parsed_body.body), is_connector_resource)
        results == [i \in DOMAIN resources |->
                      validate_resource_block(resources[i].body, resources[i].labels[2])]
        failed == {i \in DOMAIN results : results[i].kind # "Ok"}
    IN IF ~parsed_body.ok
       THEN Scan(StructErr("Failed to parse Terraform file", <<>>, <<>>), 0)
       ELSE IF failed # {} THEN Scan(results[MinOf(failed)], MinOf(failed))
       ELSE Scan(StructOk, Len(resources))

\* validate_terraform_structure: the loop returns at the first block whose
\* validate_resource_block fails
validate_terraform_structure(terraform_content) ==
    LET parsed_body == from_str(terraform_content)
        resources == SelectSeq(blocks(parsed_body.body), is_connector_resource)
        results == [i \in DOMAIN resources |->
                      validate_resource_block(resources[i].body, resources[i].labels[2])]
        failed == {i \in DOMAIN results : results[i].kind # "Ok"}
    IN IF ~parsed_body.ok
       THEN Scan(StructErr("Failed to parse Terraform file", <<>>, <<>>), 0)
       ELSE IF failed # {} THEN Scan(results[MinOf(failed)], MinOf(failed))
       ELSE IF Len(resources) = 0
       THEN Scan(StructErr("No 'confluent_connector' resources found in file", <<>>, <<>>), 0)
       ELSE Scan(StructOk, Len(resources))

(***************************************************************************)
(* app.rs: validate_connector.                                             *)
(***************************************************************************)
\* the fields of a catalog definition the lookup reads; every definition of
\* sources.rs has its name as connector_class
connector_head(name, display_name, connector_type) ==
    [name |-> name, display_name |-> display_name, connector_class |-> name,
     connector_type |-> connector_type]

\* the source connectors of get_all_connectors, in its order; the definitions
\* validate_config is called on are spelled out, the others are heads
source_connectors ==
    <<
      connector_head("ActiveMQSource", "ActiveMQ Source", "Source"),
      connector_head("AmazonCloudWatchLogsSource", "Amazon CloudWatch Logs Source", "Source"),
      connector_head("AmazonDynamoDBCdcSource", "Amazon DynamoDB CDC Source", "Source"),
      connector_head("AmazonKinesisSource", "Amazon Kinesis Source", "Source"),
      connector_head("AmazonS3Source", "Amazon S3 Source", "Source"),
      connector_head("AmazonSQSSource", "Amazon SQS Source", "Source"),
      connector_head("AzureBlobStorageSource", "Azure Blob Storage Source", "Source"),
      connector_head("AzureCosmosDBSource", "Azure Cosmos DB Source", "Source"),
      connector_head("AzureCosmosDBSourceV2", "Azure Cosmos DB Source V2", "Source"),
      connector_head("AzureEventHubsSource", "Azure Event Hubs Source", "Source"),
      connector_head("AzureServiceBusSource", "Azure Service Bus Source", "Source"),
      connector_head("CouchbaseSource", "Couchbase Source", "Source"),
      connector_head("DatagenSource", "Datagen Source (development and testing)", "Source"),
      connector_head("GitHubSource", "GitHub Source", "Source"),
      connector_head("GoogleCloudPubSubSource", "Google Cloud Pub/Sub Source", "Source"),
      connector_head("HttpSource", "HTTP Source", "Source"),
      connector_head("HttpSourceV2", "HTTP Source V2", "Source"),
      connector_head("IBMMQSource", "IBM MQ Source", "Source"),
      connector_head("InfluxDB2Source", "InfluxDB 2 Source", "Source"),
      connector_head("JiraSource", "Jira Source", "Source"),
      connector_head("MariaDBCdcSource", "MariaDB CDC Source", "Source"),
      connector_head("MicrosoftSqlServerCdcSourceV2", "Microsoft SQL Server CDC Source V2 (Debezium)", "Source"),
      connector_head("MicrosoftSqlServerSource", "Microsoft SQL Server Source (JDBC)", "Source"),
      connector_head("MongoDBAtlasSource", "MongoDB Atlas Source", "Source"),
      mqtt_source,
      mysql_cdc_source_v2,
      connector_head("MySqlCdcSource", "MySQL CDC Source (Debezium V1)", "Source"),
      mysql_source,
      connector_head("OracleCdcSource", "Oracle CDC Source", "Source"),
      connector_head("OracleXStreamCdcSource", "Oracle XStream CDC Source", "Source"),
      connector_head("OracleDatabaseSource", "Oracle Database Source (JDBC)", "Source"),
      postgresql_cdc_source_v2,
      connector_head("PostgresCdcSource", "PostgreSQL CDC Source (Debezium V1)", "Source"),
      postgresql_source,
      connector_head("RabbitMQSource", "RabbitMQ Source", "Source"),
      connector_head("SalesforceBulkAPISource", "Salesforce Bulk API Source", "Source"),
      connector_head("SalesforceBulkAPI2_0Source", "Salesforce Bulk API 2.0 Source", "Source"),
      connector_head("SalesforceCdcSource", "Salesforce CDC Source", "Source"),
      connector_head("SalesforcePlatformEventSource", "Salesforce Platform Event Source", "Source"),
      connector_head("SalesforcePushTopicSource", "Salesforce PushTopic Source", "Source"),
      connector_head("ServiceNowSourceV2", "ServiceNow Source V2", "Source"),
      connector_head("SFTPSource", "SFTP Source", "Source"),
      connector_head("SnowflakeSource", "Snowflake Source", "Source"),
      connector_head("ZendeskSource", "Zendesk Source", "Source")>>

\* the sink connectors of get_all_connectors: sinks.rs names none of them
\* here; these are the sinks the tests look up by name or build by hand
sink_connectors ==
    <<connector_head("S3_SINK", "S3 Sink", "Sink"),
      connector_head("PostgresSink", "PostgreSQL Sink", "Sink"),
      connector_head("MySQLSink", "MySQL Sink", "Sink")>>

get_all_connectors == source_connectors \o sink_connectors

\* a lookup that also takes the display name
get_connector_by_name_or_display(name) ==
    LET hits == {i \in DOMAIN get_all_connectors :
                    \/ S(get_all_connectors[i].name) = name
                    \/ S(get_all_connectors[i].display_name) = name}
    IN IF hits = {} THEN NoneOpt ELSE SomeOpt(get_all_connectors[MinOf(hits)])

\* get_connector_by_name: find(|connector| connector.name == name)
get_connector_by_name(name) ==
    LET hits == {i \in DOMAIN get_all_connectors : S(get_all_connectors[i].name) = name}
    IN IF hits = {} THEN NoneOpt ELSE SomeOpt(get_all_connectors[MinOf(hits)])

\* a check that takes no file for commented out
all_lines_commented_never(terraform_content) == FALSE

\* lines().filter(|line| !line.trim().is_empty()).all(|line| starts_with('#'))
all_lines_commented(terraform_content) ==
    \A i \in DOMAIN terraform_content : terraform_content[i].s \in {"Comment", "Blank"}

\* a loop that passes over a record of no catalog connector
RECURSIVE report_runs_skips_unknown(_)
report_runs_skips_unknown(configs) ==
    IF configs = <<>> THEN {[reports |-> <<>>, unknown |-> NoneOpt]}
    ELSE LET connector_def == get_connector_by_name(configs[1].connector_class)
         IN IF ~is_some(connector_def)
            THEN report_runs_skips_unknown(Tail(configs))
            ELSE {[reports |-> <<report>> \o rest.reports, unknown |-> rest.unknown] :
                     report \in validate_config(unwrap(connector_def), configs[1].config,
                                                configs[1].sensitive_config),
                     rest \in report_runs_skips_unknown(Tail(configs))}

\* the runs of the loop over connector_configs: the validate_config results
\* it printed, and the connector class it returned "Unknown connector" for
RECURSIVE report_runs(_)
report_runs(configs) ==
    IF configs = <<>> THEN {[reports |-> <<>>, unknown |-> NoneOpt]}
    ELSE LET connector_def == get_connector_by_name(configs[1].connector_class)
         IN IF ~is_some(connector_def)
            THEN {[reports |-> <<>>, unknown |-> SomeOpt(configs[1].connector_class)]}
            ELSE {[reports |-> <<report>> \o rest.reports, unknown |-> rest.unknown] :
                     report \in validate_config(unwrap(connector_def), configs[1].config,
                                                configs[1].sensitive_config),
                     rest \in report_runs(Tail(configs))}

\* what validate_connector did and returned: the kind of its Result, the
\* validate_config results it printed, and the result of
\* validate_terraform_structure if it was called
Outcome(kind, reports, structure_result) ==
    [kind |-> kind, reports |-> reports, structure |-> structure_result]

\* a validate_connector that returns the first validate_config error
validate_connector_returns_report(config_exists, terraform_content) ==
    LET parsed_configs == parse_terraform_configs(terraform_content)
        scan == validate_terraform_structure(terraform_content)
        failed(run) == {i \in DOMAIN run.reports : run.reports[i].kind # "Ok"}
    IN IF ~config_exists THEN {Outcome("Configuration file not found", <<>>, NoneOpt)}
       ELSE IF all_lines_commented(terraform_content) THEN {Outcome("Ok", <<>>, NoneOpt)}
       ELSE IF ~parsed_configs.ok
       THEN {Outcome("Failed to parse Terraform file", <<>>, NoneOpt)}
       ELSE IF parsed_configs.configs = <<>>
       THEN {Outcome("No connector configurations found in the file.", <<>>, NoneOpt)}
       ELSE {IF failed(run) # {}
             THEN Outcome(run.reports[MinOf(failed(run))].kind,
                          SubSeq(run.reports, 1, MinOf(failed(run))), NoneOpt)
             ELSE IF is_some(run.unknown)
             THEN Outcome("Unknown connector", run.reports, NoneOpt)
             ELSE Outcome(scan.kind, run.reports, SomeOpt(scan)) :
                run \in report_runs(parsed_configs.configs)}

\* a validate_connector that returns Ok after the loop, without the
\* structural validation
validate_connector_without_structure(config_exists, terraform_content) ==
    LET parsed_configs == parse_terraform_configs(terraform_content)
    IN IF ~config_exists THEN {Outcome("Configuration file not found", <<>>, NoneOpt)}
       ELSE IF all_lines_commented(terraform_content) THEN {Outcome("Ok", <<>>, NoneOpt)}
       ELSE IF ~parsed_configs.ok
       THEN {Outcome("Failed to parse Terraform file", <<>>, NoneOpt)}
       ELSE IF parsed_configs.configs = <<>>
       THEN {Outcome("No connector configurations found in the file.", <<>>, NoneOpt)}
       ELSE {IF is_some(run.unknown)
             THEN Outcome("Unknown connector", run.reports, NoneOpt)
             ELSE Outcome("Ok", run.reports, NoneOpt) :
                run \in report_runs(parsed_configs.configs)}

\* validate_connector: the outcomes it can have; they differ in the
\* validate_config results only
validate_connector(config_exists, terraform_content) ==
    LET parsed_configs == parse_terraform_configs(terraform_content)
        scan == validate_terraform_structure(terraform_content)
    IN IF ~config_exists THEN {Outcome("Configuration file not found", <<>>, NoneOpt)}
       ELSE IF all_lines_commented(terraform_content) THEN {Outcome("Ok", <<>>, NoneOpt)}
       ELSE IF ~parsed_configs.ok
       THEN {Outcome("Failed to parse Terraform file", <<>>, NoneOpt)}
       ELSE IF parsed_configs.configs = <<>>
       THEN {Outcome("No connector configurations found in the file.", <<>>, NoneOpt)}
       ELSE {IF is_some(run.unknown)
             THEN Outcome("Unknown connector", run.reports, NoneOpt)
             ELSE Outcome(scan.kind, run.reports, SomeOpt(scan)) :
                run \in report_runs(parsed_configs.configs)}

(***************************************************************************)
(* State.                                                                  *)
(***************************************************************************)
VARIABLES
    vpc,        \* validation run: "build" while the maps are filled, then "validated"
    vdef,       \* the ConnectorDefinition validate_config is called on
    nonsens,    \* config_nonsensitive: HashMap<String, String>
    sens,       \* config_sensitive: HashMap<String, String>
    vresult,    \* the Result validate_config returned
    okbase,     \* history: how the maps relate to the last maps validate_config accepted
    vext,       \* history: okbase at the moment of the last validate_config call
    pc,         \* generator and parser runs: the step the run is at
    options,    \* the TerraformConfigOptions generate_connector_config is called on
    generated,  \* the Result generate_connector_config returned
    document,   \* the Terraform text parse_terraform_configs is called on
    parsed,     \* the TerraformParseResults parse_terraform_configs returned
    config_obj,     \* the hcl Object add_connector_specific_config_to_object works on
    config_prior,   \* history: config_obj when the function was called
    called,         \* the name a function was called with, and its Result
    block_body,     \* the Body validate_resource_block is called on
    block_result,   \* the Result validate_resource_block returned
    structure,      \* what validate_terraform_structure did and returned
    file_exists,    \* whether the file handed to validate_connector exists
    outcome,        \* what validate_connector did and returned
    expression,     \* the hcl Expression an extractor is called on
    extracted       \* the Option the extractor returned

vvars == <<vpc, vdef, nonsens, sens, vresult, okbase, vext>>
gvars == <<pc, options, generated, document, parsed>>
ovars == <<config_obj, config_prior, called>>
svars == <<block_body, block_result, structure, file_exists, outcome>>
xvars == <<expression, extracted>>
vars == <<vvars, gvars, ovars, svars, xvars>>

(***************************************************************************)
(* Specification SpecValidate: two maps are filled entry by entry and      *)
(* validate_config is called on them, any number of times.                 *)
(*                                                                         *)
(* okbase is "none" until validate_config returns Ok.  From then on it is  *)
(* "safe" while only new entries under keys that name no required or       *)
(* optional field and put no non-empty value of a sensitive name into the  *)
(* non-sensitive map are added, "unknown" while only new entries under     *)
(* keys that name no required or optional field are added, and "none"      *)
(* after any other insertion.                                              *)
(***************************************************************************)
\* definitions validate_config is exercised on
ValidateDefs == {mqtt_source, create_test_connector}

\* keys and values the maps are filled with
ConfigKeys(def) ==
    IF def.name = "MQTTSource"
    THEN {"mqtt.broker.url", "mqtt.topics", "mqtt.password", "mqtt.qos", "mqtt.ssl.enabled",
          "custom.extra"}
    ELSE {"password", "connection.host", "custom.extra"}
ConfigValues == {S(""), S("1"), S("true")}

NoResult == [kind |-> "none", field |-> "", value |-> <<>>, valid |-> <<>>]

\* the values of the variables a specification does not use
NoOptions == [connector_name |-> <<>>, connector |-> unknown_test_connector, topics |-> <<>>,
              input_data_format |-> NoneOpt, output_data_format |-> NoneOpt]
NoGenerated == [ok |-> FALSE, text |-> <<>>, err |-> "none"]
NoParsed == [ok |-> FALSE, configs |-> <<>>, err |-> "none"]
IdleValidate ==
    /\ vpc = "idle"
    /\ vdef = unknown_test_connector
    /\ nonsens = EmptyMap
    /\ sens = EmptyMap
    /\ vresult = NoResult
    /\ okbase = "none"
    /\ vext = "none"
IdleGenerate ==
    /\ pc = "idle"
    /\ options = NoOptions
    /\ generated = NoGenerated
    /\ document = <<>>
    /\ parsed = NoParsed
NoCall == [name |-> "", result |-> "none"]
NoStructure == [kind |-> "none", resource |-> <<>>, checked |-> 0]
NoOutcome == [kind |-> "none", reports |-> <<>>, structure |-> NoneOpt]
IdleOverrides ==
    /\ config_obj = <<>>
    /\ config_prior = <<>>
    /\ called = NoCall
NoExpression == ExprString(<<>>)
NotExtracted == <<"none">>
IdleExtract ==
    /\ expression = NoExpression
    /\ extracted = NotExtracted
IdleStructure ==
    /\ block_body = <<>>
    /\ block_result = NoStructure
    /\ structure = NoStructure
    /\ file_exists = FALSE
    /\ outcome = NoOutcome

FieldNames(def) == {f.name : f \in Range(def.required_configs \o def.optional_configs)}

InitValidate ==
    /\ vpc = "build"
    /\ vdef \in ValidateDefs
    /\ nonsens = EmptyMap
    /\ sens = EmptyMap
    /\ vresult = NoResult
    /\ okbase = "none"
    /\ vext = "none"
    /\ IdleGenerate
    /\ IdleOverrides
    /\ IdleStructure
    /\ IdleExtract

Entries == Cardinality(DOMAIN nonsens) + Cardinality(DOMAIN sens)

\* okbase after a new entry (key, value) went into a map
OkBaseAfter(map, key, value, into_nonsensitive) ==
    IF okbase = "none" \/ key \in FieldNames(vdef) \/ contains_key(map, key)
    THEN "none"
    ELSE IF into_nonsensitive /\ key \in Range(vdef.sensitive_configs) /\ ~is_empty(value)
    THEN "unknown"
    ELSE okbase

InsertNonsensitive(key, value) ==
    /\ contains_key(nonsens, key) \/ Entries < MaxEntries
    /\ nonsens' = map_insert(nonsens, key, value)
    /\ okbase' = OkBaseAfter(nonsens, key, value, TRUE)
    /\ vpc' = "build"
    /\ vresult' = NoResult
    /\ vext' = "none"
    /\ UNCHANGED <<vdef, sens, gvars, ovars, svars, xvars>>

InsertSensitive(key, value) ==
    /\ contains_key(sens, key) \/ Entries < MaxEntries
    /\ sens' = map_insert(sens, key, value)
    /\ okbase' = OkBaseAfter(sens, key, value, FALSE)
    /\ vpc' = "build"
    /\ vresult' = NoResult
    /\ vext' = "none"
    /\ UNCHANGED <<vdef, nonsens, gvars, ovars, svars, xvars>>

ValidateConfig ==
    /\ vpc = "build"
    /\ vresult' \in validate_config(vdef, nonsens, sens)
    /\ vpc' = "validated"
    /\ vext' = okbase
    /\ okbase' = IF vresult'.kind = "Ok" THEN "safe" ELSE "none"
    /\ UNCHANGED <<vdef, nonsens, sens, gvars, ovars, svars, xvars>>

NextValidate ==
    \/ \E key \in ConfigKeys(vdef), value \in ConfigValues : InsertNonsensitive(key, value)
    \/ \E key \in ConfigKeys(vdef), value \in ConfigValues : InsertSensitive(key, value)
    \/ ValidateConfig

SpecValidate == InitValidate /\ [][NextValidate]_vars

(***************************************************************************)
(* Specification SpecGenerate: generate_connector_config is called on      *)
(* options, and parse_terraform_configs on the text it returned.           *)
(***************************************************************************)
\* sequences over a set, up to a length
SeqsUpTo(set, n) == UNION {[1..k -> set] : k \in 0..n}

\* the inputs: names over two characters, lists of two topics, every format,
\* and definitions of every shape the generator tells apart
NameChars == {"a", "-"}
ConnectorNames == SeqsUpTo(NameChars, MaxNameLen)
TopicLists == SeqsUpTo({S("t1"), S("t2")}, MaxTopics)
OptionalFormats == {NoneOpt} \cup {SomeOpt(f) : f \in DataFormats}
GenerateDefs ==
    {postgresql_cdc_source_v2, mysql_cdc_source_v2, postgresql_source, mysql_source,
     create_test_connector, s3_sink_test_connector,
     unknown_test_connector,
     [unknown_test_connector EXCEPT !.sensitive_configs = <<"database.password", "api key">>],
     [unknown_test_connector EXCEPT
        !.sensitive_configs = <<"password", "database.password", "password">>],
     [unknown_test_connector EXCEPT !.connector_class = ""]}

InitGenerate ==
    /\ pc = "options"
    /\ options \in [connector_name : ConnectorNames,
                    connector : GenerateDefs,
                    topics : TopicLists,
                    input_data_format : OptionalFormats,
                    output_data_format : OptionalFormats]
    /\ generated = NoGenerated
    /\ document = <<>>
    /\ parsed = NoParsed
    /\ IdleValidate
    /\ IdleOverrides
    /\ IdleStructure
    /\ IdleExtract

Generate ==
    /\ pc = "options"
    /\ generated' = generate_connector_config(options)
    /\ document' = generated'.text
    /\ pc' = IF generated'.ok THEN "generated" ELSE "failed"
    /\ UNCHANGED <<options, parsed, vvars, ovars, svars, xvars>>

ParseGenerated ==
    /\ pc = "generated"
    /\ parsed' = parse_terraform_configs(document)
    /\ pc' = "parsed"
    /\ UNCHANGED <<options, generated, document, vvars, ovars, svars, xvars>>

ValidateGenerated ==
    /\ pc = "generated"
    /\ structure' = validate_terraform_structure(document)
    /\ pc' = "checked"
    /\ UNCHANGED <<options, generated, document, parsed, block_body, block_result, file_exists,
                   outcome, vvars, ovars, xvars>>

\* validate_config of the connector of the options on the record read back
ValidateParsed ==
    /\ pc = "parsed"
    /\ parsed.ok
    /\ Len(parsed.configs) = 1
    /\ vresult' \in validate_config(options.connector, parsed.configs[1].config,
                                     parsed.configs[1].sensitive_config)
    /\ pc' = "validated"
    /\ UNCHANGED <<options, generated, document, parsed, vpc, vdef, nonsens, sens, okbase, vext,
                   ovars, svars, xvars>>

NextGenerate ==
    \/ Generate
    \/ ParseGenerated
    \/ ValidateGenerated
    \/ ValidateParsed

SpecGenerate == InitGenerate /\ [][NextGenerate]_vars

(***************************************************************************)
(* Specification SpecParse: a Terraform text is written element by element *)
(* and parse_terraform_configs is called on it.                            *)
(***************************************************************************)
\* the block headers of the texts
BlockHeads ==
    {<<"resource", <<S("confluent_connector"), S("c1")>> >>,
     <<"resource", <<S("confluent_connector")>> >>,
     <<"resource", <<S("aws_s3_bucket"), S("b1")>> >>,
     <<"module", <<S("m1")>> >>,
     <<"module", <<>> >>,
     <<"variable", <<S("v1")>> >>,
     <<"output", <<S("o1")>> >>}

StringEntry(key, literal) == [key |-> ObjectKeyExpression(key), value |-> ExprString(S(literal))]
ClassObject(class_expr) ==
    ExprObject(<<StringEntry("name", "n1"),
                 [key |-> ObjectKeyExpression("connector.class"), value |-> class_expr]>>)

\* the block bodies of the texts
BlockBodies ==
    {<<>>,
     <<Attribute("config_nonsensitive", ExprTraversal(ExprVariable("var"), <<"config">>))>>,
     <<Attribute("config_nonsensitive", ExprObject(<<StringEntry("name", "n1")>>))>>,
     <<Attribute("config_nonsensitive", ClassObject(ExprString(S("PostgresSink"))))>>,
     <<Attribute("config_sensitive", ExprObject(<<StringEntry("password", "s1")>>)),
       Attribute("config_nonsensitive", ClassObject(ExprString(S("PostgresSink"))))>>,
     <<Attribute("config_nonsensitive",
                 ClassObject(ExprTraversal(ExprVariable("var"), <<"class">>)))>>,
     <<Attribute("config_nonsensitive", ClassObject(ExprString(S(""))))>>}

\* a connector resource inside another block
NestedBlock ==
    Block("locals", <<>>,
          <<Block("resource", <<S("confluent_connector"), S("c2")>>,
                  <<Attribute("config_nonsensitive",
                              ClassObject(ExprString(S("PostgresSink"))))>>)>>)

WrittenBlocks ==
    {to_string(<<Block(head[1], head[2], body)>>)[1] : head \in BlockHeads, body \in BlockBodies}
        \cup {to_string(<<NestedBlock>>)[1]}

InitParse ==
    /\ pc = "edit"
    /\ options = NoOptions
    /\ generated = NoGenerated
    /\ document = <<>>
    /\ parsed = NoParsed
    /\ IdleValidate
    /\ IdleOverrides
    /\ IdleStructure
    /\ IdleExtract

Write(element) ==
    /\ pc = "edit"
    /\ Len(document) < MaxElements
    /\ document' = Append(document, element)
    /\ UNCHANGED <<pc, options, generated, parsed, vvars, ovars, svars, xvars>>

ParseDocument ==
    /\ pc = "edit"
    /\ parsed' = parse_terraform_configs(document)
    /\ pc' = "parsed"
    /\ UNCHANGED <<options, generated, document, vvars, ovars, svars, xvars>>

NextParse ==
    \/ \E block \in WrittenBlocks : Write(block)
    \/ Write(CommentLine)
    \/ Write(BlankLine)
    \/ Write(InvalidText)
    \/ ParseDocument

SpecParse == InitParse /\ [][NextParse]_vars

(***************************************************************************)
(* Specification SpecOverrides: an hcl Object is filled entry by entry and *)
(* add_connector_specific_config_to_object is called on it.                *)
(***************************************************************************)
\* the names of the match arms, and names that have no arm
ArmNames ==
    {"PostgresCdcSourceV2", "MySqlCdcSourceV2", "S3_SINK", "PostgreSQLSource", "PostgresSink",
     "MySQLSource", "MySQLSink"}
OtherNames == {"UnknownConnector", "MQTTSource", "S3Sink", ""}

\* keys and values the object is filled with before the call
PriorKeys == {"name", "topics", "s3.bucket.name", "output.data.format", "custom"}
PriorValues == {S("x"), S("")}

InitOverrides ==
    /\ pc = "fill"
    /\ options = NoOptions
    /\ generated = NoGenerated
    /\ document = <<>>
    /\ parsed = NoParsed
    /\ IdleOverrides
    /\ IdleValidate
    /\ IdleStructure
    /\ IdleExtract

ObjectInsert(key, value) ==
    /\ pc = "fill"
    /\ object_contains_key(config_obj, make_object_key(key)) \/ Len(config_obj) < MaxKeys
    /\ config_obj' = object_insert(config_obj, make_object_key(key), ExprString(value))
    /\ UNCHANGED <<config_prior, called, gvars, vvars, svars, xvars>>

\* the Result of add_connector_specific_config_to_object
add_connector_specific_config_result(connector_def) == "Ok"

AddConnectorSpecificConfig(name, format) ==
    LET connector_def == [unknown_test_connector EXCEPT !.name = name]
        call_options == [NoOptions EXCEPT !.connector = connector_def,
                                          !.input_data_format = format,
                                          !.output_data_format = format]
    IN /\ pc = "fill"
       /\ config_prior' = config_obj
       /\ config_obj' =
             add_connector_specific_config_to_object(config_obj, connector_def, call_options)
       /\ called' = [name |-> name,
                     result |-> add_connector_specific_config_result(connector_def)]
       /\ pc' = "added"
       /\ UNCHANGED <<options, generated, document, parsed, vvars, svars, xvars>>

NextOverrides ==
    \/ \E key \in PriorKeys, value \in PriorValues : ObjectInsert(key, value)
    \/ \E name \in ArmNames \cup OtherNames, format \in {NoneOpt, SomeOpt("Json")} :
          AddConnectorSpecificConfig(name, format)

SpecOverrides == InitOverrides /\ [][NextOverrides]_vars

(***************************************************************************)
(* Specification SpecResourceBlock: validate_resource_block is called on   *)
(* the body of a resource block.                                           *)
(***************************************************************************)
\* the parts resource bodies are made of
IdAttribute == Attribute("id", ExprTraversal(ExprVariable("var"), <<"environment_id">>))
NameAttribute == Attribute("display_name", ExprString(S("n1")))
NestedChoices(identifier) ==
    {<<>>,
     <<Block(identifier, <<>>, <<>>)>>,
     <<Block(identifier, <<>>, <<IdAttribute>>)>>,
     <<Block(identifier, <<>>, <<NameAttribute>>)>>,
     <<Block(identifier, <<>>, <<NameAttribute, IdAttribute>>)>>,
     <<Block(identifier, <<>>, <<>>), Block(identifier, <<>>, <<IdAttribute>>)>>,
     <<Block(identifier, <<>>, <<IdAttribute>>), Block(identifier, <<>>, <<>>)>>}
AttributeChoices(key) == {<<>>, <<Attribute(key, ExprObject(<<>>))>>}
StatusChoices == {<<>>, <<Attribute("status", ExprTraversal(ExprVariable("var"), <<"status">>))>>}

Reverse(seq) == [i \in DOMAIN seq |-> seq[Len(seq) + 1 - i]]

\* the resource bodies: every choice of parts, in the order the generator
\* writes them and in the opposite order
ResourceBodies ==
    LET written == {status \o environment \o cluster \o sensitive \o nonsensitive :
                      status \in StatusChoices,
                      environment \in NestedChoices("environment"),
                      cluster \in NestedChoices("kafka_cluster"),
                      sensitive \in AttributeChoices("config_sensitive"),
                      nonsensitive \in AttributeChoices("config_nonsensitive")}
    IN written \cup {Reverse(body) : body \in written}

InitResourceBlock ==
    /\ pc = "block"
    /\ options = NoOptions
    /\ generated = NoGenerated
    /\ document = <<>>
    /\ parsed = NoParsed
    /\ block_body \in ResourceBodies
    /\ called \in {[name |-> label, result |-> "none"] : label \in {S("c1"), S("c2")}}
    /\ block_result = NoStructure
    /\ structure = NoStructure
    /\ file_exists = FALSE
    /\ outcome = NoOutcome
    /\ config_obj = <<>>
    /\ config_prior = <<>>
    /\ IdleValidate
    /\ IdleExtract

ValidateResourceBlock ==
    /\ pc = "block"
    /\ block_result' = validate_resource_block(block_body, called.name)
    /\ pc' = "checked"
    /\ UNCHANGED <<options, generated, document, parsed, block_body, structure, file_exists,
                   outcome, vvars, ovars, xvars>>

NextResourceBlock == ValidateResourceBlock

SpecResourceBlock == InitResourceBlock /\ [][NextResourceBlock]_vars

(***************************************************************************)
(* Specification SpecStructure: a Terraform text is written element by     *)
(* element and validate_terraform_structure is called on it.               *)
(***************************************************************************)
\* the body the generator writes, and the bodies that lack one element of it
CompleteBody ==
    <<Attribute("status", ExprTraversal(ExprVariable("var"), <<"status">>)),
      Block("environment", <<>>, <<IdAttribute>>),
      Block("kafka_cluster", <<>>, <<IdAttribute>>),
      Attribute("config_sensitive", ExprObject(<<>>)),
      Attribute("config_nonsensitive", ClassObject(ExprString(S("PostgresSink"))))>>
Without(body, at) == SubSeq(body, 1, at - 1) \o SubSeq(body, at + 1, Len(body))
IncompleteBodies ==
    {Without(CompleteBody, at) : at \in DOMAIN CompleteBody}
        \cup {[CompleteBody EXCEPT ![2] = Block("environment", <<>>, <<NameAttribute>>)],
              [CompleteBody EXCEPT ![3] = Block("kafka_cluster", <<>>, <<>>)]}

StructureBlocks ==
    {Block("resource", <<S("confluent_connector"), label>>, body) :
        label \in {S("c1"), S("c2")}, body \in {CompleteBody} \cup IncompleteBodies}
      \cup {Block("resource", <<S("aws_s3_bucket"), S("b1")>>, CompleteBody),
            Block("resource", <<S("aws_s3_bucket"), S("b1")>>, <<>>),
            Block("resource", <<S("confluent_connector")>>, CompleteBody),
            Block("module", <<S("m1")>>, CompleteBody),
            Block("locals", <<>>,
                  <<Block("resource", <<S("confluent_connector"), S("c3")>>, CompleteBody)>>)}

WrittenStructureBlocks == {to_string(<<block>>)[1] : block \in StructureBlocks}

ValidateTerraformStructure ==
    /\ pc = "edit"
    /\ structure' = validate_terraform_structure(document)
    /\ pc' = "structured"
    /\ UNCHANGED <<options, generated, document, parsed, block_body, block_result, file_exists,
                   outcome, vvars, ovars, xvars>>

NextStructure ==
    \/ \E block \in WrittenStructureBlocks : Write(block)
    \/ Write(CommentLine)
    \/ Write(InvalidText)
    \/ ValidateTerraformStructure

SpecStructure == InitParse /\ [][NextStructure]_vars

(***************************************************************************)
(* Specification SpecConnector: a Terraform file is written element by     *)
(* element and validate_connector is called on it.                         *)
(***************************************************************************)
\* config_nonsensitive objects: an MQTTSource configuration that is valid,
\* one without its required fields, one with the sensitive mqtt.password, one
\* with an mqtt.qos outside the valid values, and one of no known connector
MqttConfig(entries) ==
    <<Attribute("config_sensitive", ExprObject(<<>>)),
      Attribute("config_nonsensitive",
                ExprObject(<<StringEntry("connector.class", "MQTTSource")>> \o entries))>>
MqttRequired == <<StringEntry("mqtt.broker.url", "tcp://b1"), StringEntry("mqtt.topics", "t1")>>
ConnectorConfigs ==
    {MqttConfig(MqttRequired),
     MqttConfig(<<>>),
     MqttConfig(MqttRequired \o <<StringEntry("mqtt.password", "s1")>>),
     MqttConfig(MqttRequired \o <<StringEntry("mqtt.qos", "9")>>),
     <<Attribute("config_sensitive", ExprObject(<<>>)),
       Attribute("config_nonsensitive",
                 ExprObject(<<StringEntry("connector.class", "UnknownConnector")>>))>>}

\* the status attribute and the two nested blocks of a resource body
StructureHead == SubSeq(CompleteBody, 1, 3)

ConnectorBlocks ==
    {Block("resource", <<S("confluent_connector"), S("c1")>>, head \o config) :
        head \in {StructureHead, Tail(StructureHead)}, config \in ConnectorConfigs}
      \cup {Block("module", <<S("m1")>>, MqttConfig(<<>>)),
            Block("variable", <<S("v1")>>, <<>>)}

WrittenConnectorBlocks == {to_string(<<block>>)[1] : block \in ConnectorBlocks}

InitConnector ==
    /\ pc = "edit"
    /\ options = NoOptions
    /\ generated = NoGenerated
    /\ document = <<>>
    /\ parsed = NoParsed
    /\ block_body = <<>>
    /\ block_result = NoStructure
    /\ structure = NoStructure
    /\ file_exists \in BOOLEAN
    /\ outcome = NoOutcome
    /\ IdleValidate
    /\ IdleOverrides
    /\ IdleExtract

ValidateConnector ==
    /\ pc = "edit"
    /\ outcome' \in validate_connector(file_exists, document)
    /\ pc' = "validated"
    /\ UNCHANGED <<options, generated, document, parsed, block_body, block_result, structure,
                   file_exists, vvars, ovars, xvars>>

NextConnector ==
    \/ \E block \in WrittenConnectorBlocks : Write(block)
    \/ Write(CommentLine)
    \/ Write(BlankLine)
    \/ Write(InvalidText)
    \/ ValidateConnector

SpecConnector == InitConnector /\ [][NextConnector]_vars

(***************************************************************************)
(* Specification SpecCatalog: get_connector_by_name is called on names,    *)
(* display names and names in another case, any number of times.           *)
(***************************************************************************)
OtherCase ==
    {S("mqttsource"), S("MQTTSOURCE"), S("Mqttsource"), S("postgressink"), S("s3_sink"),
     S("mysqlsink"), S("UnknownConnector"), S(""), S("postgrescdcsourcev2"),
     S("POSTGRESCDCSOURCEV2"), S("PostgresCDCSourceV2"), S("MySQLCdcSourceV2"),
     S("MysqlSource"), S("PostgresqlSource"), S("postgresSink"), S("S3_Sink"), S("S3Sink"),
     S("HTTPSource"), S("httpsource"), S("SftpSource"), S("IbmMqSource"), S("GithubSource"),
     S("mqtt source"), S("MQTT source"), S("PostgreSQL sink"), S("s3 sink")}
LookupNames ==
    {S(get_all_connectors[i].name) : i \in DOMAIN get_all_connectors}
      \cup {S(get_all_connectors[i].display_name) : i \in DOMAIN get_all_connectors}
      \cup OtherCase

InitCatalog ==
    /\ IdleValidate
    /\ IdleGenerate
    /\ IdleOverrides
    /\ IdleStructure
    /\ IdleExtract

GetConnectorByName(name) ==
    /\ called' = [name |-> name, result |-> get_connector_by_name(name)]
    /\ pc' = "found"
    /\ UNCHANGED <<options, generated, document, parsed, config_obj, config_prior, vvars, svars, xvars>>

NextCatalog == \E name \in LookupNames : GetConnectorByName(name)

SpecCatalog == InitCatalog /\ [][NextCatalog]_vars

(***************************************************************************)
(* Specification SpecExtract: extract_string_from_expression and           *)
(* extract_map_from_expression are called on an expression.                *)
(***************************************************************************)
\* expressions of every variant the extractors tell apart
ScalarExprs ==
    {ExprString(S("a")), ExprString(S("")), ExprVariable("v1"), ExprNumber("1"),
     ExprBool(TRUE), ExprTraversal(ExprVariable("var"), <<"status">>), ExprObject(<<>>)}
ElementExprs == ScalarExprs \cup {ExprArray(<<ExprString(S("b"))>>)}
ArrayExprs == {ExprArray(elems) : elems \in SeqsUpTo(ElementExprs, MaxElements)}
ArgLists ==
    {<<>>, <<ExprString(S(","))>>}
      \cup {<<array>> : array \in ArrayExprs}
      \cup {<<array, ExprString(S(","))>> : array \in ArrayExprs}
      \cup {<<ExprString(S(",")), array>> : array \in ArrayExprs}
FuncCallExprs == {ExprFuncCall(name, args) : name \in {"join", "concat"}, args \in ArgLists}

\* objects whose keys are bare or quoted and whose values are of every variant
EntryKeys == {ObjectKeyIdentifier("name"), ObjectKeyExpression("name"), ObjectKeyExpression("a.b")}
EntryValues ==
    ScalarExprs
      \cup {ExprArray(<<ExprString(S("a")), ExprObject(<<>>)>>),
            ExprFuncCall("join", <<ExprArray(<<ExprString(S("a")), ExprString(S("b"))>>)>>),
            ExprFuncCall("join", <<ExprString(S(",")), ExprArray(<<ExprString(S("a"))>>)>>)}
ObjectExprs ==
    {ExprObject(entries) :
        entries \in {e \in SeqsUpTo({[key |-> k, value |-> v] : k \in EntryKeys, v \in EntryValues},
                                     MaxKeys) :
                        \A i, j \in DOMAIN e : e[i].key = e[j].key => i = j}}

InitExtract ==
    /\ pc = "expression"
    /\ options = NoOptions
    /\ generated = NoGenerated
    /\ document = <<>>
    /\ parsed = NoParsed
    /\ expression \in ScalarExprs \cup ArrayExprs \cup FuncCallExprs \cup ObjectExprs
    /\ extracted = NotExtracted
    /\ IdleValidate
    /\ IdleOverrides
    /\ IdleStructure

ExtractString ==
    /\ pc = "expression"
    /\ extracted' = extract_string_from_expression(expression)
    /\ pc' = "string"
    /\ UNCHANGED <<options, generated, document, parsed, expression, vvars, ovars, svars>>

ExtractMap ==
    /\ pc = "expression"
    /\ extracted' = extract_map_from_expression(expression)
    /\ pc' = "map"
    /\ UNCHANGED <<options, generated, document, parsed, expression, vvars, ovars, svars>>

NextExtract == ExtractString \/ ExtractMap

SpecExtract == InitExtract /\ [][NextExtract]_vars

(***************************************************************************)
(* Claims about validate_config, checked under SpecValidate.  What the     *)
(* claims speak of is computed here from the two maps of the state.        *)
(***************************************************************************)
Validated == vpc = "validated"

MergedKeys == (DOMAIN nonsens) \cup (DOMAIN sens)
MergedValue(key) == IF key \in DOMAIN sens THEN sens[key] ELSE nonsens[key]

\* positions in required_configs of the fields absent from the merged map
AbsentRequired ==
    {i \in DOMAIN vdef.required_configs : vdef.required_configs[i].name \notin MergedKeys}

\* sensitive names held by the non-sensitive map with a non-empty value
MisplacedNames ==
    {name \in Range(vdef.sensitive_configs) :
        name \in DOMAIN nonsens /\ nonsens[name] # <<>>}

\* the valid_values the definition gives a key, <<>> when it gives none
ValidValuesOf(key) ==
    LET fields == vdef.required_configs \o vdef.optional_configs
        hits == {i \in DOMAIN fields : fields[i].name = key}
    IN IF hits = {} THEN <<>> ELSE fields[MinOf(hits)].valid_values

\* merged keys whose merged value is outside the valid_values of their field
BadValueKeys ==
    {key \in MergedKeys :
        /\ ValidValuesOf(key) # <<>>
        /\ MergedValue(key) \notin Range(ValidValuesOf(key)[1])}

\* C2: validate_config returns the "Missing required configuration" error if
\* and only if some field of required_configs is absent from the merged map,
\* and the field it names is the first absent one in required_configs order.
C2_MissingRequiredIff ==
    Validated =>
        /\ (vresult.kind = "Missing required configuration") <=> (AbsentRequired # {})
        /\ AbsentRequired # {} =>
              vresult.field = vdef.required_configs[MinOf(AbsentRequired)].name

\* C2 witness: the second required field is reported while the first one is
\* present in the sensitive map only.
C2_Witness ==
    /\ Validated
    /\ vresult = MissingErr("mqtt.topics")
    /\ "mqtt.broker.url" \in (DOMAIN sens) \ (DOMAIN nonsens)

\* C3 as claimed: once validate_config has returned Ok, it still returns Ok
\* after new entries were added to either map under keys that name no
\* required or optional field of the definition.
C3_UnknownKeysKeepOk ==
    (Validated /\ vext \in {"unknown", "safe"}) => vresult.kind = "Ok"

\* C3 amended: once validate_config has returned Ok, it still returns Ok
\* after new entries were added to either map under keys that name no
\* required or optional field, provided no entry added to the non-sensitive
\* map puts a non-empty value under a name of sensitive_configs.
C3_HarmlessKeysKeepOk ==
    (Validated /\ vext = "safe") => vresult.kind = "Ok"

\* C3 witness: a second call returned Ok after unknown entries were added to
\* both maps, one of them an empty value under a sensitive name.
C3_Witness ==
    /\ Validated
    /\ vext = "safe"
    /\ vresult.kind = "Ok"
    /\ "custom.extra" \in DOMAIN sens
    /\ "password" \in DOMAIN nonsens

\* C4: when no required field is missing and some sensitive_configs name is
\* in the non-sensitive map with a non-empty value, validate_config fails
\* with the "should be in config_sensitive block" error for such a name,
\* also when the key is in the sensitive map too; the error is never raised
\* for a name whose non-sensitive value is the empty string.
C4_MisplacedSensitive ==
    Validated =>
        /\ (AbsentRequired = {} /\ MisplacedNames # {}) =>
              /\ vresult.kind = "should be in config_sensitive block"
              /\ vresult.field \in MisplacedNames
        /\ vresult.kind = "should be in config_sensitive block" =>
              vresult.field \in MisplacedNames

\* C4 witness: the error is returned for a name that both maps hold.
C4_Witness ==
    /\ Validated
    /\ vresult = MisplacedErr("mqtt.password")
    /\ "mqtt.password" \in DOMAIN sens

\* C5: valid_values are checked against the merged map, in which a sensitive
\* entry supersedes the non-sensitive entry of the same key: the call fails
\* when a merged value is outside the valid_values of its field, an "Invalid
\* value" error names such a key with its merged value, and a key of both
\* maps is judged by its sensitive value only.
C5_ValidValuesOnMerged ==
    Validated =>
        /\ BadValueKeys # {} => vresult.kind # "Ok"
        /\ vresult.kind = "Invalid value" =>
              /\ vresult.field \in BadValueKeys
              /\ vresult.value = MergedValue(vresult.field)
              /\ vresult.valid = ValidValuesOf(vresult.field)[1]

\* C5 witness: the call returns Ok although the non-sensitive map holds an
\* invalid value, because the sensitive map holds a valid one for the key.
C5_Witness ==
    /\ Validated
    /\ vresult.kind = "Ok"
    /\ "mqtt.qos" \in DOMAIN nonsens
    /\ "mqtt.qos" \in DOMAIN sens
    /\ nonsens["mqtt.qos"] = S("true")
    /\ sens["mqtt.qos"] = S("1")

\* C6: the message returned is that of the earliest violated rule in the
\* order missing required field, misplaced sensitive field, invalid value,
\* and Ok is returned only if no rule is violated.
C6_RuleOrder ==
    Validated =>
        vresult.kind =
            IF AbsentRequired # {} THEN "Missing required configuration"
            ELSE IF MisplacedNames # {} THEN "should be in config_sensitive block"
            ELSE IF BadValueKeys # {} THEN "Invalid value"
            ELSE "Ok"

\* C6 witness: the misplaced-sensitive message is returned while a value is
\* invalid as well.
C6_Witness ==
    /\ Validated
    /\ vresult.kind = "should be in config_sensitive block"
    /\ BadValueKeys # {}

\* C30: validate_config is deterministic: every call on the definition and
\* the maps of the state returns the result this call returned, the error
\* message included, also when several keys carry values outside their
\* valid_values.
C30_ValidateConfigDeterministic ==
    Validated => \A result \in validate_config(vdef, nonsens, sens) : result = vresult

(***************************************************************************)
(* Claims about generate_connector_config, checked under SpecGenerate.     *)
(* What the claims speak of is read from the generated text.               *)
(***************************************************************************)
Generated == pc \in {"generated", "parsed"}

\* the entries of the object written under an attribute of the resource block
WrittenObject(attr) ==
    LET body == document[1].body
        at == CHOOSE i \in DOMAIN body : body[i].s = "Attribute" /\ body[i].key = attr
    IN body[at].expr.entries

WrittenHas(attr, key) == \E i \in DOMAIN WrittenObject(attr) : WrittenObject(attr)[i].key.text = key
WrittenValue(attr, key) ==
    LET obj == WrittenObject(attr)
    IN obj[CHOOSE i \in DOMAIN obj : obj[i].key.text = key].value

\* connector_name with every '-' replaced by '_'
IsSanitizedName(name) ==
    /\ Len(name) = Len(options.connector_name)
    /\ \A i \in DOMAIN name :
          name[i] = IF options.connector_name[i] = "-" THEN "_" ELSE options.connector_name[i]

\* the parse result is the one record of the options
RoundTrip ==
    /\ parsed.ok
    /\ Len(parsed.configs) = 1
    /\ parsed.configs[1].connector_class = S(options.connector.connector_class)
    /\ IsSanitizedName(parsed.configs[1].name)
    /\ "name" \in DOMAIN parsed.configs[1].config
    /\ parsed.configs[1].config["name"] = options.connector_name

\* C1 as stated: for any options whose connector has a non-empty
\* connector_class, generating and parsing back yields exactly one record with
\* that connector_class, named by connector_name with '-' replaced by '_', and
\* holding connector_name itself as config["name"].
C1_RoundTripAnyOptions ==
    options.connector.connector_class # "" =>
        /\ pc # "failed"
        /\ pc = "parsed" => RoundTrip

\* C1: for any options whose connector has a non-empty connector_class and on
\* which generate_connector_config returns Ok, parsing the generated text
\* yields exactly one record with that connector_class, named by
\* connector_name with '-' replaced by '_', and holding connector_name itself
\* as config["name"].
C1_RoundTripOfGenerated ==
    (pc = "parsed" /\ options.connector.connector_class # "") => RoundTrip

\* C1 witness: the text generated for a name holding a '-' has been parsed.
C1_Witness ==
    /\ pc = "parsed"
    /\ options.connector.connector_class # ""
    /\ options.connector_name = <<"a", "-">>
    /\ parsed.configs[1].name = <<"a", "_">>

TopicsEmpty == Len(options.topics) = 0
IsSink == options.connector.connector_type = "Sink"
PrefixRequired == \E f \in Range(options.connector.required_configs) : f.name = "topic.prefix"
IsLiteral(value, literal) == value = [t |-> "String", s |-> <<literal>>]
IsJoinOfTopics(value) ==
    /\ value.t = "FuncCall"
    /\ value.name = "join"
    /\ Len(value.args) = 2
    /\ IsLiteral(value.args[1], ",")
    /\ value.args[2].t = "Array"
    /\ Len(value.args[2].elems) = Len(options.topics)
    /\ \A i \in DOMAIN options.topics :
          value.args[2].elems[i] = [t |-> "String", s |-> options.topics[i]]
HasPrefixPlaceholder ==
    /\ WrittenHas("config_nonsensitive", "topic.prefix")
    /\ IsLiteral(WrittenValue("config_nonsensitive", "topic.prefix"),
                 "<REPLACE_WITH_TOPIC_PREFIX>")
HasJoinedTopics ==
    /\ WrittenHas("config_nonsensitive", "topics")
    /\ IsJoinOfTopics(WrittenValue("config_nonsensitive", "topics"))

\* C9: the topics section of the generated non-sensitive object is one of four
\* branches: no topics and a Sink give the topics placeholder and no
\* topic.prefix; no topics and a Source give the topic.prefix placeholder and
\* no topics; topics and a required topic.prefix give the topic.prefix
\* placeholder and topics = join(",", [topics]); topics and no required
\* topic.prefix give the join alone.
C9_TopicsBranches ==
    Generated =>
        /\ (TopicsEmpty /\ IsSink) =>
              /\ WrittenHas("config_nonsensitive", "topics")
              /\ IsLiteral(WrittenValue("config_nonsensitive", "topics"),
                           "<REPLACE_WITH_TOPIC_NAME>")
              /\ ~WrittenHas("config_nonsensitive", "topic.prefix")
        /\ (TopicsEmpty /\ ~IsSink) =>
              /\ HasPrefixPlaceholder
              /\ ~WrittenHas("config_nonsensitive", "topics")
        /\ (~TopicsEmpty /\ PrefixRequired) => HasPrefixPlaceholder /\ HasJoinedTopics
        /\ (~TopicsEmpty /\ ~PrefixRequired) =>
              /\ HasJoinedTopics
              /\ ~WrittenHas("config_nonsensitive", "topic.prefix")

\* C9 witness: two topics were given for a connector that requires topic.prefix.
C9_Witness ==
    /\ Generated
    /\ Len(options.topics) = 2
    /\ PrefixRequired
    /\ HasPrefixPlaceholder
    /\ HasJoinedTopics

\* the format a written value names, as a literal or as a reference
FormatNamed(value) ==
    IF value.t = "String" THEN value.s
    ELSE IF value.t = "Traversal" THEN <<value.attrs[Len(value.attrs)]>>
    ELSE <<>>

ExpectedOutputFormat ==
    IF is_some(options.output_data_format) THEN unwrap(options.output_data_format)
    ELSE IF options.connector.name = "S3_SINK" THEN "Parquet"
    ELSE "Avro"

\* C10: the generated output.data.format names the given output format; when
\* none is given it names Parquet for the S3_SINK connector and Avro for every
\* other connector.
C10_OutputFormatDefault ==
    Generated =>
        /\ WrittenHas("config_nonsensitive", "output.data.format")
        /\ FormatNamed(WrittenValue("config_nonsensitive", "output.data.format"))
              = S(to_terraform_value(ExpectedOutputFormat))

\* the key texts of a written object, in order
WrittenKeys(attr) == [i \in DOMAIN WrittenObject(attr) |-> WrittenObject(attr)[i].key.text]

FormatKeys == {"output.data.format", "input.data.format", "output.key.format"}

\* C11: every data-format value of the generated non-sensitive object
\* (output.data.format, input.data.format, output.key.format) is a reference
\* into the formats table, a traversal, and no literal string.
C11_FormatsAreReferences ==
    Generated =>
        \A key \in FormatKeys :
            WrittenHas("config_nonsensitive", key) =>
                WrittenValue("config_nonsensitive", key).t = "Traversal"

\* the keys the topics section writes
TopicsSectionKeys ==
    IF TopicsEmpty THEN (IF IsSink THEN <<"topics">> ELSE <<"topic.prefix">>)
    ELSE (IF PrefixRequired THEN <<"topic.prefix">> ELSE <<>>) \o <<"topics">>

\* the keys the connector-specific overrides write, in order
OverrideKeys ==
    LET obj == add_connector_specific_config_to_object(<<>>, options.connector, options)
    IN [i \in DOMAIN obj |-> obj[i].key.text]

\* C12: the keys of the generated non-sensitive object are, in order,
\* connector.class, name, kafka.auth.mode, kafka.deployment.type, the keys of
\* the topics section, the connector-specific override keys, then
\* output.data.format, then tasks.max, whose value is "1".
C12_KeyOrder ==
    Generated =>
        /\ WrittenKeys("config_nonsensitive") =
              <<"connector.class", "name", "kafka.auth.mode", "kafka.deployment.type">>
                 \o TopicsSectionKeys \o OverrideKeys
                 \o <<"output.data.format", "tasks.max">>
        /\ IsLiteral(WrittenValue("config_nonsensitive", "tasks.max"), "1")

SensitiveNames == Range(options.connector.sensitive_configs)

\* C13: the generated config_sensitive object has one entry per distinct name
\* of sensitive_configs and no other; every value is the placeholder
\* "<REPLACE_WITH_ACTUAL_VALUE>"; the key of a name with a '.' is written
\* quoted, the key of any other name bare.
C13_SensitiveObject ==
    Generated =>
        LET obj == WrittenObject("config_sensitive")
        IN /\ Len(obj) = Cardinality(SensitiveNames)
           /\ {obj[i].key.text : i \in DOMAIN obj} = SensitiveNames
           /\ \A i \in DOMAIN obj :
                 /\ IsLiteral(obj[i].value, "<REPLACE_WITH_ACTUAL_VALUE>")
                 /\ obj[i].key.quoted <=> contains_dot(obj[i].key.text)

\* C13 witness: a text was generated for sensitive names of which one is
\* repeated and one holds a '.'.
C13_Witness ==
    /\ Generated
    /\ options.connector.sensitive_configs = <<"password", "database.password", "password">>
    /\ Len(WrittenObject("config_sensitive")) = 2
    /\ WrittenObject("config_sensitive")[2].key = [quoted |-> TRUE, text |-> "database.password"]

\* the sensitive names without a '.' that are no valid identifier, in order
BadSensitivePositions ==
    {i \in DOMAIN options.connector.sensitive_configs :
        /\ options.connector.sensitive_configs[i] \notin DottedTexts
        /\ options.connector.sensitive_configs[i] \in InvalidIdentifiers}

\* C15: generate_connector_config returns an error exactly when a sensitive
\* name without a '.' is no valid identifier; the error is the Terraform
\* error naming the first such name and comes with no text; for every other
\* input it returns Ok with the text.
C15_GenerationErrors ==
    pc \in {"generated", "failed", "parsed"} =>
        /\ generated.ok <=> (BadSensitivePositions = {})
        /\ ~generated.ok =>
              /\ generated.err = "Terraform: Invalid identifier"
              /\ generated.detail =
                    options.connector.sensitive_configs[MinOf(BadSensitivePositions)]
              /\ generated.text = <<>>
              /\ document = <<>>
        /\ generated.ok => generated.text # <<>>

\* C15 witness: the name "api key", which follows a name with a '.', made the
\* generation fail.
C15_Witness ==
    /\ pc = "failed"
    /\ options.connector.sensitive_configs = <<"database.password", "api key">>
    /\ generated.detail = "api key"

\* what the resource block of the generated text holds
GeneratedHasAttribute(key) ==
    \E e \in Range(document[1].body) : e.s = "Attribute" /\ e.key = key
GeneratedHasBlock(identifier) ==
    \E e \in Range(document[1].body) : e.s = "Block" /\ e.identifier = identifier
GeneratedHasBlockWithId(identifier) ==
    \E e \in Range(document[1].body) :
        /\ e.s = "Block" /\ e.identifier = identifier
        /\ \E a \in Range(e.body) : a.s = "Attribute" /\ a.key = "id"

\* C26: every text generate_connector_config returns passes
\* validate_terraform_structure: it holds one resource block labelled
\* "confluent_connector" and the sanitized name, with a status attribute, an
\* environment block with id, a kafka_cluster block with id, the two config
\* attributes and a lifecycle block.
C26_GeneratedPassesStructure ==
    (pc = "checked") =>
        /\ structure.kind = "Ok"
        /\ structure.checked = 1
        /\ Len(document) = 1
        /\ document[1].s = "Block" /\ document[1].identifier = "resource"
        /\ Len(document[1].labels) = 2
        /\ document[1].labels[1].text = S("confluent_connector")
        /\ IsSanitizedName(document[1].labels[2].text)
        /\ GeneratedHasAttribute("status")
        /\ GeneratedHasBlockWithId("environment")
        /\ GeneratedHasBlockWithId("kafka_cluster")
        /\ GeneratedHasAttribute("config_sensitive")
        /\ GeneratedHasAttribute("config_nonsensitive")
        /\ GeneratedHasBlock("lifecycle")

\* C26 witness: the text generated for a name with a '-' and two topics
\* passed the structural validation.
C26_Witness ==
    /\ pc = "checked"
    /\ \E i \in DOMAIN options.connector_name : options.connector_name[i] = "-"
    /\ Len(options.topics) = 2
    /\ structure.kind = "Ok"
    /\ structure.checked = 1

(***************************************************************************)
(* Claims about parse_terraform_configs, checked under SpecParse.  What    *)
(* the claims speak of is read from the text as it was written.            *)
(***************************************************************************)
ParsedText == pc = "parsed" /\ options = NoOptions

\* the text has no element that is no HCL
ValidText == \A i \in DOMAIN document : document[i].s # "Invalid"

\* the top-level blocks of the text, in order
TopBlocks == SelectSeq(document, LAMBDA e : e.s = "Block")

LabelTexts(block) == [j \in DOMAIN block.labels |-> block.labels[j].text]

\* a resource block of type confluent_connector with a name, or a module block
IsConnectorResource(block) ==
    /\ block.identifier = "resource"
    /\ Len(block.labels) >= 2
    /\ LabelTexts(block)[1] = <<"confluent_connector">>
IsModule(block) == block.identifier = "module"

\* the name the claim gives the record of a block
RecordName(block) ==
    IF IsConnectorResource(block) THEN LabelTexts(block)[2]
    ELSE IF Len(block.labels) >= 1 THEN LabelTexts(block)[1]
    ELSE <<>>

\* the connector.class literals written in config_nonsensitive objects of a block
WrittenClassEntries(block) ==
    {e \in UNION {Range(a.expr.entries) :
                    a \in {x \in Range(block.body) :
                             /\ x.s = "Attribute"
                             /\ x.key = "config_nonsensitive"
                             /\ x.expr.t = "Object"}} :
        e.key.text = "connector.class" /\ e.value.t = "String" /\ e.value.s # <<>>}
YieldsClass(block) == WrittenClassEntries(block) # {}

\* the blocks a record is expected from, in order
RecordBlocks ==
    SelectSeq(TopBlocks, LAMBDA b : (IsConnectorResource(b) \/ IsModule(b)) /\ YieldsClass(b))

\* C7: parse_terraform_configs returns Ok for every valid text; a resource or
\* module block whose config_nonsensitive yields no connector.class leaves no
\* record, so the records are those of the blocks that yield one, each with
\* the class written in its block; a text with no such block gives the empty
\* list.
C7_OmissionsDropBlocks ==
    ParsedText =>
        /\ ValidText => parsed.ok
        /\ parsed.ok =>
              /\ Len(parsed.configs) = Len(RecordBlocks)
              /\ \A i \in DOMAIN parsed.configs :
                    /\ ~is_empty(parsed.configs[i].connector_class)
                    /\ \E e \in WrittenClassEntries(RecordBlocks[i]) :
                          parsed.configs[i].connector_class = e.value.s
              /\ RecordBlocks = <<>> => parsed.configs = <<>>

\* C7 witness: a comment line and a connector resource whose
\* config_nonsensitive object has no connector.class parsed to the empty list.
C7_Witness ==
    /\ ParsedText
    /\ Len(document) = 2
    /\ document[1] = CommentLine
    /\ document[2].s = "Block"
    /\ IsConnectorResource(document[2])
    /\ \E a \in Range(document[2].body) :
          a.s = "Attribute" /\ a.key = "config_nonsensitive" /\ a.expr.t = "Object"
    /\ ~YieldsClass(document[2])
    /\ parsed.ok
    /\ parsed.configs = <<>>

\* C8: the records come, in order, from the top-level resource blocks with at
\* least two labels whose first label is "confluent_connector", each named by
\* its second label, and from the top-level module blocks, each named by its
\* label; no other top-level block and no nested block leaves a record.
C8_RecordsFromConnectorBlocks ==
    (ParsedText /\ parsed.ok) =>
        /\ Len(parsed.configs) <=
              Cardinality({i \in DOMAIN TopBlocks :
                             IsConnectorResource(TopBlocks[i]) \/ IsModule(TopBlocks[i])})
        /\ [i \in DOMAIN parsed.configs |-> parsed.configs[i].name]
              = [i \in DOMAIN RecordBlocks |-> RecordName(RecordBlocks[i])]

\* C8 witness: of a resource of another type and a module, both with a
\* connector.class, only the module left a record, named by its label.
C8_Witness ==
    /\ ParsedText
    /\ parsed.ok
    /\ Len(document) = 2
    /\ document[1].s = "Block" /\ document[1].identifier = "resource"
    /\ ~IsConnectorResource(document[1]) /\ YieldsClass(document[1])
    /\ document[2].s = "Block" /\ IsModule(document[2]) /\ YieldsClass(document[2])
    /\ Len(parsed.configs) = 1
    /\ parsed.configs[1].name = <<"m1">>

(***************************************************************************)
(* Claims about add_connector_specific_config_to_object, checked under     *)
(* SpecOverrides.                                                          *)
(***************************************************************************)
\* the connector names of the dispatch table
DispatchTable ==
    {"PostgresCdcSourceV2", "MySqlCdcSourceV2", "S3_SINK", "PostgreSQLSource", "PostgresSink",
     "MySQLSource", "MySQLSink"}

\* C14: add_connector_specific_config_to_object called with a connector name
\* outside the dispatch table returns Ok and leaves the object as it was,
\* whatever the object held.
C14_UnknownConnectorNoOp ==
    (pc = "added" /\ called.name \notin DispatchTable) =>
        /\ called.result = "Ok"
        /\ config_obj = config_prior

\* C14 witness: the call with the name UnknownConnector was made on an object
\* of two entries.
C14_Witness ==
    /\ pc = "added"
    /\ called.name = "UnknownConnector"
    /\ Len(config_prior) = 2
    /\ config_obj = config_prior

(***************************************************************************)
(* Claims about validate_resource_block, checked under SpecResourceBlock.  *)
(* What the claims speak of is read from the body of the state.            *)
(***************************************************************************)
BodyHasAttribute(key) == \E e \in Range(block_body) : e.s = "Attribute" /\ e.key = key
BlocksOf(identifier) ==
    SelectSeq(block_body, LAMBDA e : e.s = "Block" /\ e.identifier = identifier)
HasId(block) == \E a \in Range(block.body) : a.s = "Attribute" /\ a.key = "id"
SomeBlockHasId(identifier) == \E b \in Range(BlocksOf(identifier)) : HasId(b)
FirstBlockHasId(identifier) ==
    BlocksOf(identifier) # <<>> /\ HasId(BlocksOf(identifier)[1])

\* the errors of the checklist, in its order
ChecklistErrors ==
    <<"missing 'status' field",
      "missing 'environment { id = ... }' block",
      "environment block must have 'id' attribute",
      "missing 'kafka_cluster { id = ... }' block",
      "kafka_cluster block must have 'id' attribute",
      "missing 'config_sensitive' attribute",
      "missing 'config_nonsensitive' attribute">>

\* the result the checklist asks for: Ok when every element is present, else
\* the error of the first missing element, naming the resource
FollowsChecklist(present) ==
    LET missing == {i \in DOMAIN present : ~present[i]}
    IN IF missing = {} THEN block_result.kind = "Ok"
       ELSE /\ block_result.kind = ChecklistErrors[MinOf(missing)]
            /\ block_result.resource = called.name

\* C17 as stated: validate_resource_block returns Ok if and only if the body
\* has a status attribute, an environment block containing an id attribute, a
\* kafka_cluster block containing an id attribute, a config_sensitive and a
\* config_nonsensitive attribute; otherwise its error names the resource and
\* the first missing element of that list.
C17_ChecklistAnyBlock ==
    pc = "checked" =>
        FollowsChecklist(<<BodyHasAttribute("status"),
                           BlocksOf("environment") # <<>>,
                           SomeBlockHasId("environment"),
                           BlocksOf("kafka_cluster") # <<>>,
                           SomeBlockHasId("kafka_cluster"),
                           BodyHasAttribute("config_sensitive"),
                           BodyHasAttribute("config_nonsensitive")>>)

\* C17: validate_resource_block returns Ok if and only if the body has a
\* status attribute, an environment block of which the first one contains an
\* id attribute, a kafka_cluster block of which the first one contains an id
\* attribute, a config_sensitive and a config_nonsensitive attribute;
\* otherwise its error names the resource and the first missing element of
\* that list.
C17_ChecklistFirstBlock ==
    pc = "checked" =>
        FollowsChecklist(<<BodyHasAttribute("status"),
                           BlocksOf("environment") # <<>>,
                           FirstBlockHasId("environment"),
                           BlocksOf("kafka_cluster") # <<>>,
                           FirstBlockHasId("kafka_cluster"),
                           BodyHasAttribute("config_sensitive"),
                           BodyHasAttribute("config_nonsensitive")>>)

\* C17 witness: a body that lacks only the kafka_cluster block got the error
\* that names kafka_cluster and the resource.
C17_Witness ==
    /\ pc = "checked"
    /\ BodyHasAttribute("status")
    /\ FirstBlockHasId("environment")
    /\ BlocksOf("kafka_cluster") = <<>>
    /\ BodyHasAttribute("config_sensitive")
    /\ BodyHasAttribute("config_nonsensitive")
    /\ block_result.kind = "missing 'kafka_cluster { id = ... }' block"
    /\ block_result.resource = <<"c2">>

(***************************************************************************)
(* Claims about validate_terraform_structure, checked under SpecStructure. *)
(***************************************************************************)
Structured == pc = "structured"

\* the top-level connector resources of the text, in order
ConnectorResources == SelectSeq(TopBlocks, IsConnectorResource)

\* C18: validate_terraform_structure returns the "No 'confluent_connector'
\* resources found" error for a valid text without a resource block of type
\* confluent_connector with two labels, and in no other case.
C18_NoResourcesError ==
    Structured =>
        (structure.kind = "No 'confluent_connector' resources found in file")
            <=> (ValidText /\ ConnectorResources = <<>>)

\* C18 witness: a text of a resource of another type and a connector resource
\* with one label got the error.
C18_Witness ==
    /\ Structured
    /\ Len(document) = 2
    /\ document[1].s = "Block" /\ document[1].identifier = "resource"
    /\ LabelTexts(document[1]) = <<S("aws_s3_bucket"), S("b1")>>
    /\ document[2].s = "Block" /\ document[2].identifier = "resource"
    /\ LabelTexts(document[2]) = <<S("confluent_connector")>>
    /\ structure.kind = "No 'confluent_connector' resources found in file"

\* C19: a checklist failure in one connector resource does not stop the scan
\* of validate_terraform_structure: every connector resource of a valid text
\* is checked, also those that follow a failing one.
C19_ScanContinues ==
    (Structured /\ ValidText) => structure.checked = Len(ConnectorResources)

(***************************************************************************)
(* Claims about validate_connector, checked under SpecConnector.           *)
(***************************************************************************)
ConnectorValidated == pc = "validated"

\* the names of catalog definitions that the texts use
CatalogNames == {S("MQTTSource"), S("PostgresCdcSourceV2")}

\* every record of the text has the class of a catalog definition
RecordsKnown ==
    \A i \in DOMAIN RecordBlocks :
        \A e \in WrittenClassEntries(RecordBlocks[i]) : e.value.s \in CatalogNames

\* C20: in validate_connector a validate_config failure is only reported: for
\* an existing valid text with records of catalog connectors, every record
\* got its validate_config report, validate_terraform_structure ran
\* afterwards, and the call returned what validate_terraform_structure
\* returned, whatever the reports were.
C20_ConfigFailuresOnlyReported ==
    (ConnectorValidated /\ file_exists /\ ValidText /\ RecordBlocks # <<>> /\ RecordsKnown) =>
        /\ Len(outcome.reports) = Len(RecordBlocks)
        /\ is_some(outcome.structure)
        /\ outcome.kind = unwrap(outcome.structure).kind

\* C20 witness: of two connector resources the first failed validate_config,
\* the second was still validated and passed, the structure was validated and
\* the call returned Ok.
C20_Witness ==
    /\ ConnectorValidated
    /\ file_exists
    /\ Len(RecordBlocks) = 2
    /\ RecordsKnown
    /\ Len(outcome.reports) = 2
    /\ outcome.reports[1].kind = "Missing required configuration"
    /\ outcome.reports[2].kind = "Ok"
    /\ is_some(outcome.structure)
    /\ outcome.kind = "Ok"

\* the records of the text whose class is the name of no catalog definition
UnknownRecords ==
    {i \in DOMAIN RecordBlocks :
        \E e \in WrittenClassEntries(RecordBlocks[i]) : e.value.s \notin CatalogNames}

\* C21: a record whose connector_class is the name of no catalog definition
\* makes validate_connector return the "Unknown connector" error at that
\* record: only the records before the first such record got a
\* validate_config report and validate_terraform_structure was not run.
C21_UnknownConnectorStops ==
    (ConnectorValidated /\ file_exists /\ ValidText /\ UnknownRecords # {}) =>
        /\ outcome.kind = "Unknown connector"
        /\ Len(outcome.reports) = MinOf(UnknownRecords) - 1
        /\ outcome.structure = NoneOpt

\* C21 witness: of two connector resources the first has an unknown class and
\* the second a catalog class; no record was validated and the call returned
\* the error.
C21_Witness ==
    /\ ConnectorValidated
    /\ file_exists
    /\ Len(RecordBlocks) = 2
    /\ UnknownRecords = {1}
    /\ outcome.kind = "Unknown connector"
    /\ outcome.reports = <<>>
    /\ outcome.structure = NoneOpt

\* every line of the text that is not blank is a comment line
AllCommented == \A i \in DOMAIN document : document[i].s \in {"Comment", "Blank"}

\* C22: validate_connector on an existing file whose non-blank lines are all
\* comment lines returned Ok with no record validated and no structural
\* validation; on any other existing file in which the parser found no
\* record it returned the "No connector configurations found" error.
C22_CommentedOrEmpty ==
    (ConnectorValidated /\ file_exists) =>
        /\ AllCommented => outcome = Outcome("Ok", <<>>, NoneOpt)
        /\ (~AllCommented /\ ValidText /\ RecordBlocks = <<>>) =>
              outcome = Outcome("No connector configurations found in the file.", <<>>, NoneOpt)

\* C22 witness: a file of a blank line and a comment line was taken for
\* commented out and the call returned Ok.
C22_Witness ==
    /\ ConnectorValidated
    /\ file_exists
    /\ document = <<BlankLine, CommentLine>>
    /\ outcome.kind = "Ok"
    /\ outcome.structure = NoneOpt

Found == pc = "found"

\* the definitions of the catalog that have the name looked up
Named == {i \in DOMAIN get_all_connectors : S(get_all_connectors[i].name) = called.name}

ElementTexts(elems) ==
    LET kept == SelectSeq(elems, LAMBDA e : extract_string_from_expression(e) # NoneOpt)
    IN [i \in DOMAIN kept |-> extract_string_from_expression(kept[i])[1]]

\* texts with ", " between them
RECURSIVE CommaJoined(_)
CommaJoined(texts) ==
    IF texts = <<>> THEN <<>>
    ELSE IF Len(texts) = 1 THEN texts[1]
    ELSE texts[1] \o <<", ">> \o CommaJoined(Tail(texts))

IsJoinOfArray(expr) ==
    expr.t = "FuncCall" /\ expr.name = "join" /\ expr.args # <<>> /\ expr.args[1].t = "Array"

Extractable ==
    {i \in DOMAIN expression.entries :
        extract_string_from_expression(expression.entries[i].value) # NoneOpt}
LastExtractable(text) ==
    CHOOSE i \in Extractable :
        /\ expression.entries[i].key.text = text
        /\ \A j \in Extractable : expression.entries[j].key.text = text => j <= i

\* C25: extract_map_from_expression returns Some for an Object and None for
\* every other expression; the map has an entry for exactly the key texts of
\* the entries whose value extracts to a string, with that string as value
\* (the last one, where a bare and a quoted key have the same text), and the
\* key text does not tell how the key was written.
C25_MapOfExtractableEntries ==
    (pc = "map") =>
        /\ (extracted # NoneOpt) <=> (expression.t = "Object")
        /\ expression.t = "Object" =>
              /\ DOMAIN extracted[1] = {expression.entries[i].key.text : i \in Extractable}
              /\ \A text \in DOMAIN extracted[1] :
                    extracted[1][text] =
                        extract_string_from_expression(
                            expression.entries[LastExtractable(text)].value)[1]

\* C25 witness: of an object with a quoted key on a string and a quoted key
\* on an object, the map has the first entry only.
C25_Witness ==
    /\ pc = "map"
    /\ expression = ExprObject(<<[key |-> ObjectKeyExpression("name"), value |-> ExprString(S("a"))],
                                 [key |-> ObjectKeyExpression("a.b"), value |-> ExprObject(<<>>)]>>)
    /\ DOMAIN extracted[1] = {"name"}
    /\ extracted[1]["name"] = S("a")

(***************************************************************************)
(* Claims about the generated text read back, checked under SpecGenerate.  *)
(***************************************************************************)
\* C27: the topics list survives the round trip: for options with topics,
\* the record parsed from the generated text has the topic names with ", "
\* between them as its config["topics"].
C27_TopicsRoundTrip ==
    (pc = "parsed" /\ options.topics # <<>> /\ parsed.ok) =>
        \A i \in DOMAIN parsed.configs :
            /\ "topics" \in DOMAIN parsed.configs[i].config
            /\ parsed.configs[i].config["topics"] = CommaJoined(options.topics)

\* the catalog source connectors that have an arm of their own in
\* add_connector_specific_config_to_object
SourcesWithOverrides ==
    {postgresql_cdc_source_v2, mysql_cdc_source_v2, postgresql_source, mysql_source}

\* C28: for every catalog source connector with an arm of its own and any
\* topics list, the record parsed from the generated text passes
\* validate_config of that connector's definition.
C28_GeneratedPassesValidateConfig ==
    (pc = "validated" /\ options.connector \in SourcesWithOverrides) => vresult.kind = "Ok"

====
